---- MODULE Spec2Model ----
(***************************************************************************)
(* Verification model of the darkgrade PTP host library.                   *)
(*                                                                         *)
(* The library is modelled subsystem by subsystem; every subsystem has its *)
(* own group of variables, its own initial predicate and next-state        *)
(* relation, and its own specification:                                    *)
(*                                                                         *)
(*   SpecTxn    transaction-ID counter (USBTransport.getNextTransactionId) *)
(*   SpecBulk   bulk send / receive steps with STALL recovery              *)
(*              (persistent-listener USBTransport)                         *)
(*   SpecRecv   bulk-IN container reassembly (chunking USBTransport and    *)
(*              single-read USBTransport)                                  *)
(*   SpecListen interrupt event listener (persistent-listener USBTransport)*)
(*   SpecDecode decoding of one EVENT container (handleInterruptData)      *)
(*   SpecPoll   lifecycle of the polling USBTransport                      *)
(*   SpecNikon  NikonCamera get / set access checks                        *)
(*   SpecRegistry  vendor registry built over the generic one, lookups     *)
(*   SpecCodec  encodePTPValue / decodePTPValue and property codecs        *)
(*   SpecLogger Logger storage and trimming                                *)
(*   SpecSdio   SonySDIOParser.processChunk                                *)
(*   SpecSend   send() / bulkOut of the four USBTransport classes          *)
(*   SpecCanonPause  CanonCamera that pauses polling around set / capture  *)
(*   SpecCanonCache  cache-only CanonCamera: connect, polls, get, set      *)
(*   SpecCanonWait   getCanonProperty of the request-and-wait CanonCamera  *)
(*   FairCanonWait   the same with the 5 s timers firing                   *)
(*   SpecCanon  CanonCamera operations over the transaction engine         *)
(*                                                                         *)
(* A specification leaves the variables of the other subsystems unchanged. *)
(***************************************************************************)
EXTENDS Integers, Sequences, FiniteSets, TLC

VARIABLES
    \* ---- transaction-ID counter (usb-transport.ts) ----
    transactionId,      \* USBTransport.transactionId
    prevId,             \* the ID yielded by the call before the last one
    issued,             \* number of IDs yielded so far (saturating)
    \* ---- transport lifecycle (part_001) ----
    connected,          \* USBTransport.connected
    endpoints,          \* USBTransport.endpoints # null
    hasInterrupt,       \* endpoints.interrupt is present
    classRequestHandler,\* USBTransport.classRequestHandler # null
    \* ---- one bulk step: send / receive / interrupt STALL recovery ----
    stepKind,           \* "none", "out" (bulkOut), "in" (bulkIn), "int" (listener)
    stepPc,             \* the await the step is suspended at
    stepErr,            \* the error the step was rejected with
    stepTxn,            \* transactionId argument of send / receive
    raceTimeout,        \* the awaited transfer races the 5 s timeout promise
    abandonedReads,     \* bulk-IN transfers still pending after their receive rejected
    pollIndex,          \* loop variable i of the status poll in handleStallError
    lastStatus,         \* code of the last Get_Device_Status answer
    transfers,          \* bulk transfers issued by this step
    results,            \* statuses of the transfers of this step that completed
    recoveries,         \* handleStallError invocations of this step
    usbLog,             \* USB requests issued by this step, in order
    \* ---- transaction engine around the step ----
    txnState,           \* "idle", "active", "DONE", "FAILED"
    responseCode,       \* response code the transaction ended with
    cancelledTxn,       \* transaction ID carried by the last Cancel_Request
    session,            \* the engine's view of the session: "ok", "suspect", "failed"
    probePc,            \* the engine's status probe: "none", "status"
    \* ---- bulk-IN container reassembly (usb-transport.ts, part_001) ----
    recvVariant,        \* "chunked" (usb-transport.ts) or "single" (part_001)
    stream,             \* the bytes the device has to deliver, in order
    devPos,             \* how many of them it has delivered
    recvPc,             \* "idle", "first", "more", "single", "resolved", "rejected"
    requested,          \* length argument of the outstanding transferIn
    reads,              \* transferIn calls issued by this bulkIn
    firstLen,           \* byte count of the first read (-1 before it completes)
    containerLength,    \* containerLength local of the chunking bulkIn
    received,           \* chunks received so far, concatenated in arrival order
    terminated,         \* a zero-length read was returned
    returned,           \* the Uint8Array bulkIn resolved with
    recvErr,            \* the error bulkIn rejected with
    \* ---- interrupt event listener (part_001) ----
    isListeningForEvents, \* USBTransport.isListeningForEvents
    eventHandlers,      \* USBTransport.eventHandlers
    pendingReads,       \* interrupt transferIn promises not yet settled
    restartTimers,      \* pending 100 ms timers of the listener's catch branch
    connPc,             \* connect(): "idle", "finding", "opening"
    stopPc,             \* stopEventListening(): "idle", "clearHalt", "wait"
    discPc,             \* disconnect(): "idle", "stopping", "closing"
    recPc,              \* handleStallError(INTERRUPT): "none", "status", "clear", "poll", "sleep"
    recIndex,           \* its loop variable i
    notified,           \* handlers the last event was dispatched to
    eventsRead,         \* interrupt reads completed with data; the n-th is event n
    delivered,          \* per handler: the events it was invoked with, in order
    atDispatch,         \* eventHandlers when the last event was dispatched
    subscribed,         \* handlers passed to onEvent and not removed since
    malformed,          \* the events whose bytes failed to parse
    unhandled,          \* promise rejections of the listener nothing handled
    settledAfterStop,   \* a read settled while isListeningForEvents was false
    \* ---- decoding of one EVENT container (part_001) ----
    evSent,             \* the event the device transmits: code, ID, payload
    evData,             \* the bytes the interrupt read returned
    evPc,               \* "read", "dispatched", "rejected"
    evCalls,            \* the events the registered handler was invoked with
    \* ---- lifecycle of the polling USBTransport (usb-transport.ts) ----
    pollConnected,      \* USBTransport.connected
    pollInterrupt,      \* endpoints?.interrupt is present
    interruptListening, \* USBTransport.interruptListening
    interruptInterval,  \* USBTransport.interruptInterval: "null", "pending", "stale"
    pollReads,          \* interrupt transferIn calls pollInterruptEndpoint awaits
    pollTimers,         \* pending 100 ms timers of pollInterruptEndpoint
    pollHandlers,       \* USBTransport.eventHandlers
    pollConnPc,         \* connect(): "idle", "finding", "opening"
    pollDiscPc,         \* disconnect(): "idle", "closing"
    firstId,            \* first ID handed out on this connection (0: none yet)
    \* ---- NikonCamera get / set (nikon-camera.ts) ----
    nkPc,               \* "idle", "set" or "get": the send the call is awaiting
    nkCall,             \* the last get / set call: kind and property
    nkOutcome,          \* how that call settled ("-": not yet)
    nkSent,             \* the operations handed to this.send, in order
    \* ---- generic and vendor registries (constants/vendors/sony) ----
    regGeneric,         \* entries of the generic object literal, in source order
    regVendor,          \* the vendor's own entries, in source order
    regMerged,          \* the vendor registry object ({...generic, vendor entries})
    regPc,              \* "defining", "merged"
    regQuery,           \* the last lookup: by "name" or by "code", and its key
    regFound,           \* what that lookup returned
    \* ---- value codecs (core/buffers.ts, property definitions) ----
    cdPc,               \* "idle", "encoded", "decoded"
    cdCodec,            \* which encode / decode pair is applied
    cdType,             \* the PTP datatype (declared datatype for a property)
    cdValue,            \* the value given to encode
    cdBytes,            \* what encode returned
    cdDecoded,          \* what decode returned for it
    \* ---- Logger (core/logger.ts) ----
    logs,               \* Map key -> ids of the logs of that group, in order
    orderedTransactions,\* keys in the order their groups were created
    nextId,             \* id of the next log
    maxLogs,            \* config.maxLogs (0: undefined)
    lgCreated,          \* every key for which a group was created since clear()
    lgLast,             \* the last Logger call
    lgRaised,           \* setConfig has raised or lifted maxLogs since clear()
    \* ---- cache-only CanonCamera (part_006) ----
    ccPc,               \* "new", "connecting", "ready", "disconnecting", "closed", "failed"
    ccStep,             \* the await connect() or disconnect() is suspended at
    ccFlushIndex,       \* loop variable i of flushInitialEvents
    ccEmptyCount,       \* emptyCount of flushInitialEvents
    ccInterval,         \* eventPollingInterval is set
    ccPolls,            \* interval callbacks awaiting their send
    ccSetPending,       \* a setCanonProperty call awaits its send
    ccCache,            \* propertyCache
    ccSession,          \* number of connect() calls so far
    ccReported,         \* per property: value and session of the last event processed for it
    ccLastSender,       \* the method that sent the last operation
    ccGets,             \* number of getCanonProperty calls so far
    ccGet,              \* the last getCanonProperty call: property, outcome, value
    \* ---- getCanonProperty of the request-and-wait CanonCamera (canon-camera.ts) ----
    cwCache,            \* propertyCache
    cwCalls,            \* per getCanonProperty call: property, promise, value, reason, timer, send
    cwNext,             \* number of getCanonProperty calls so far
    cwPending,          \* pendingPropertyRequests: per property, the calls whose callback it holds
    cwPolled,           \* per property: the first value a poll response processed in the
                        \* last step reported for it
    \* ---- SonySDIOParser.processChunk (sony-sdio-parser.ts) ----
    frameSize,          \* SonySDIOParser.frameSize
    sdCalls,            \* number of processChunk calls so far
    sdChunk,            \* the chunk of the last call
    sdReturned,         \* what the last call returned: "none", "null" or "frame"
    \* ---- CanonCamera with pauseEventPolling (sony-sdio-parser.ts 127-376) ----
    cpInterval,         \* eventPollingInterval is set
    isPollingPaused,    \* CanonCamera.isPollingPaused
    cpCalls,            \* per caller: method, wasPolling and the await it is suspended at
    cpPolls,            \* interval callbacks awaiting their send
    \* ---- send() of the USBTransport variants ----
    svVariant,          \* which USBTransport class the transport is
    svConnected,        \* connected, with endpoints and device present
    svPc,               \* where the running send() is
    svStatus,           \* result.status of the last transferOut of the call
    svTransfers,        \* transferOut calls issued by the call
    svOutcome,          \* how the last send() settled
    svSends,            \* send() calls so far
    \* ---- CanonCamera over the transaction engine (canon-camera.ts) ----
    camPc,              \* "new", "connecting", "ready", "disconnecting", "closed", "failed"
    connStep,           \* the await connect() is suspended at
    flushIndex,         \* loop variable i of flushInitialEvents
    emptyCount,         \* emptyCount of flushInitialEvents
    remoteModeEnabled,  \* CanonCamera.remoteModeEnabled
    eventModeEnabled,   \* CanonCamera.eventModeEnabled
    discStep,           \* the await disconnect() is suspended at
    sessionId,          \* GenericCamera.sessionId (0: not set)
    connSent,           \* operations the current connect() has sent, in order
    connAcked,          \* those of them that have succeeded
    connFailed,         \* those of them that have been rejected
    returnedEvents,     \* event records of the response the last step received
    handledEvents,      \* the handleEvent calls that step made for them, in order
    setArg,             \* property and value of the setCanonProperty under way
    freshSet,           \* per property: value of a set that resolved, with no
                        \* later set of it and no later event response
    eventPollingInterval, \* CanonCamera.eventPollingInterval is set
    pollsInFlight,      \* interval callbacks awaiting their send
    setPending,         \* a setCanonProperty call awaits its send
    capturePc,          \* which of its four sends captureImage awaits (0: none)
    getState,           \* per property: state of the last getCanonProperty promise
    getValue,           \* per property: the value that promise resolved with
    propertyCache,      \* CanonCamera.propertyCache
    pendingPropertyRequests, \* per property: callbacks in pendingPropertyRequests
    queue,              \* operations submitted to the engine, not yet started
    inflight            \* operations whose COMMAND is sent and RESPONSE not yet received

txnVars == <<transactionId, prevId, issued>>

linkVars == <<connected, endpoints, hasInterrupt, classRequestHandler>>

stepVars == <<stepKind, stepPc, stepErr, stepTxn, raceTimeout, abandonedReads,
              pollIndex, lastStatus, transfers, results, recoveries, usbLog>>

engineVars == <<txnState, responseCode, cancelledTxn, session, probePc>>

bulkVars == <<linkVars, stepVars, engineVars>>

recvVars == <<recvVariant, stream, devPos, recvPc, requested, reads, firstLen,
              containerLength, received, terminated, returned, recvErr>>

listenVars == <<isListeningForEvents, eventHandlers, pendingReads, restartTimers,
                connPc, stopPc, discPc, recPc, recIndex, notified>>

eventVars == <<eventsRead, delivered, atDispatch, subscribed, malformed, unhandled,
               settledAfterStop>>

decodeVars == <<evSent, evData, evPc, evCalls>>

pollVars == <<pollConnected, pollInterrupt, interruptListening, interruptInterval,
              pollReads, pollTimers, pollHandlers, pollConnPc, pollDiscPc, firstId>>

nikonVars == <<nkPc, nkCall, nkOutcome, nkSent>>

registryVars == <<regGeneric, regVendor, regMerged, regPc, regQuery, regFound>>

codecVars == <<cdPc, cdCodec, cdType, cdValue, cdBytes, cdDecoded>>

loggerVars == <<logs, orderedTransactions, nextId, maxLogs, lgCreated, lgLast, lgRaised>>

cacheVars == <<ccPc, ccStep, ccFlushIndex, ccEmptyCount, ccInterval, ccPolls, ccSetPending,
               ccCache, ccSession, ccReported, ccLastSender, ccGets, ccGet>>

waitVars == <<cwCache, cwCalls, cwNext, cwPending, cwPolled>>

sdioVars == <<frameSize, sdCalls, sdChunk, sdReturned>>

pauseVars == <<cpInterval, isPollingPaused, cpCalls, cpPolls>>

sendVars == <<svVariant, svConnected, svPc, svStatus, svTransfers, svOutcome, svSends>>

camVars == <<camPc, connStep, flushIndex, emptyCount, remoteModeEnabled,
             eventModeEnabled, discStep>>

callerVars == <<eventPollingInterval, pollsInFlight, setPending, capturePc>>

propVars == <<getState, getValue, propertyCache, pendingPropertyRequests>>

handshakeVars == <<sessionId, connSent, connAcked, connFailed>>

dispatchVars == <<returnedEvents, handledEvents>>

setVars == <<setArg, freshSet>>

canonVars == <<camVars, handshakeVars, dispatchVars, setVars, callerVars, propVars, queue,
               inflight>>

vars == <<txnVars, bulkVars, recvVars, listenVars, eventVars, decodeVars, pollVars, nikonVars, registryVars, codecVars, loggerVars, cacheVars, waitVars, sdioVars, pauseVars, sendVars, canonVars>>

\* Everything outside one subsystem.  (The listener shares the transport
\* lifecycle variables with the bulk steps.)
outsideTxn == <<bulkVars, recvVars, listenVars, eventVars, decodeVars, pollVars, nikonVars, registryVars, codecVars, loggerVars, cacheVars, waitVars, sdioVars, pauseVars, sendVars, canonVars>>

outsideBulk == <<txnVars, recvVars, listenVars, eventVars, decodeVars, pollVars, nikonVars, registryVars, codecVars, loggerVars, cacheVars, waitVars, sdioVars, pauseVars, sendVars, canonVars>>

outsideRecv == <<txnVars, bulkVars, listenVars, eventVars, decodeVars, pollVars, nikonVars, registryVars, codecVars, loggerVars, cacheVars, waitVars, sdioVars, pauseVars, sendVars, canonVars>>

outsideListen == <<txnVars, stepVars, engineVars, recvVars, decodeVars, pollVars, nikonVars, registryVars, codecVars, loggerVars, cacheVars, waitVars, sdioVars, pauseVars, sendVars, canonVars>>

outsideDecode == <<txnVars, bulkVars, recvVars, listenVars, eventVars, pollVars, nikonVars, registryVars, codecVars, loggerVars, cacheVars, waitVars, sdioVars, pauseVars, sendVars, canonVars>>

outsidePoll == <<bulkVars, recvVars, listenVars, eventVars, decodeVars, nikonVars, registryVars, codecVars, loggerVars, cacheVars, waitVars, sdioVars, pauseVars, sendVars, canonVars>>

outsideNikon == <<txnVars, bulkVars, recvVars, listenVars, eventVars, decodeVars, pollVars, registryVars, codecVars, loggerVars, cacheVars, waitVars, sdioVars, pauseVars, sendVars, canonVars>>

outsideRegistry == <<txnVars, bulkVars, recvVars, listenVars, eventVars, decodeVars, pollVars, nikonVars, codecVars, loggerVars, cacheVars, waitVars, sdioVars, pauseVars, sendVars, canonVars>>

outsideCodec == <<txnVars, bulkVars, recvVars, listenVars, eventVars, decodeVars, pollVars, nikonVars, registryVars, loggerVars, cacheVars, waitVars, sdioVars, pauseVars, sendVars, canonVars>>

outsideLogger == <<txnVars, bulkVars, recvVars, listenVars, eventVars, decodeVars, pollVars, nikonVars, registryVars, codecVars, cacheVars, waitVars, sdioVars, pauseVars, sendVars, canonVars>>

outsideCache == <<txnVars, bulkVars, recvVars, listenVars, eventVars, decodeVars, pollVars, nikonVars, registryVars, codecVars, loggerVars, waitVars, sdioVars, pauseVars, sendVars, canonVars>>

outsideWait == <<txnVars, bulkVars, recvVars, listenVars, eventVars, decodeVars, pollVars, nikonVars, registryVars, codecVars, loggerVars, cacheVars, sdioVars, pauseVars, sendVars, canonVars>>

outsideSdio == <<txnVars, bulkVars, recvVars, listenVars, eventVars, decodeVars, pollVars, nikonVars, registryVars, codecVars, loggerVars, cacheVars, waitVars, pauseVars, sendVars, canonVars>>

outsidePause == <<txnVars, bulkVars, recvVars, listenVars, eventVars, decodeVars, pollVars, nikonVars, registryVars, codecVars, loggerVars, cacheVars, waitVars, sdioVars, sendVars, canonVars>>

outsideSend == <<txnVars, bulkVars, recvVars, listenVars, eventVars, decodeVars, pollVars, nikonVars, registryVars, codecVars, loggerVars, cacheVars, waitVars, sdioVars, pauseVars, canonVars>>

outsideCanon == <<txnVars, bulkVars, recvVars, listenVars, eventVars, decodeVars, pollVars, nikonVars, registryVars, codecVars, loggerVars, cacheVars, waitVars, sdioVars, pauseVars, sendVars>>

\* Values the variables of a subsystem hold while another subsystem runs.
QuietTxn ==
    /\ transactionId = 0
    /\ prevId = 0
    /\ issued = 0

QuietBulk ==
    /\ connected = FALSE
    /\ endpoints = FALSE
    /\ hasInterrupt = FALSE
    /\ classRequestHandler = FALSE
    /\ stepKind = "none"
    /\ stepPc = "idle"
    /\ stepErr = "none"
    /\ stepTxn = 0
    /\ raceTimeout = FALSE
    /\ abandonedReads = 0
    /\ pollIndex = 0
    /\ lastStatus = 0
    /\ transfers = 0
    /\ results = <<>>
    /\ recoveries = 0
    /\ usbLog = <<>>
    /\ txnState = "idle"
    /\ responseCode = "none"
    /\ cancelledTxn = 0
    /\ session = "ok"
    /\ probePc = "none"

QuietRecv ==
    /\ recvVariant = "none"
    /\ stream = <<>>
    /\ devPos = 0
    /\ recvPc = "idle"
    /\ requested = 0
    /\ reads = 0
    /\ firstLen = -1
    /\ containerLength = 0
    /\ received = <<>>
    /\ terminated = FALSE
    /\ returned = <<>>
    /\ recvErr = "none"

\* Identities of the handlers callers register.
Handlers == {"h1", "h2"}

QuietListen ==
    /\ isListeningForEvents = FALSE
    /\ eventHandlers = <<>>
    /\ pendingReads = 0
    /\ restartTimers = 0
    /\ connPc = "idle"
    /\ stopPc = "idle"
    /\ discPc = "idle"
    /\ recPc = "none"
    /\ recIndex = 0
    /\ notified = {}
    /\ eventsRead = 0
    /\ delivered = [h \in Handlers |-> <<>>]
    /\ atDispatch = {}
    /\ subscribed = {}
    /\ malformed = {}
    /\ unhandled = {}
    /\ settledAfterStop = FALSE

\* Canon device property codes and values the model tells apart; NoProp and
\* NoValue stand for "no property" and "no value".
Props == {"CanonAperture"}

Values == {1, 2}

NoProp == "-"

NoValue == 0

\* setCanonProperty / captureImage calls that may be under way together.
MaxOverlap == 2

Callers == 1..MaxOverlap

\* The properties the getters of CanonCamera read: getAperture, getIso.
CanonProperties == {"CanonAperture", "CanonIso"}

\* for (let i = 0; i < 20; i++)
FlushMax == 20

\* const maxEmptyBeforeStop = 3
MaxEmptyBeforeStop == 3

QuietDecode ==
    /\ evSent = <<>>
    /\ evData = <<>>
    /\ evPc = "idle"
    /\ evCalls = <<>>

QuietPoll ==
    /\ pollConnected = FALSE
    /\ pollInterrupt = FALSE
    /\ interruptListening = FALSE
    /\ interruptInterval = "null"
    /\ pollReads = 0
    /\ pollTimers = 0
    /\ pollHandlers = {}
    /\ pollConnPc = "idle"
    /\ pollDiscPc = "idle"
    /\ firstId = 0

QuietNikon ==
    /\ nkPc = "idle"
    /\ nkCall = [kind |-> "-", property |-> "-"]
    /\ nkOutcome = "-"
    /\ nkSent = <<>>

QuietRegistry ==
    /\ regGeneric = <<>>
    /\ regVendor = <<>>
    /\ regMerged = <<>>
    /\ regPc = "defining"
    /\ regQuery = [by |-> "-", name |-> "-", code |-> 0]
    /\ regFound = [name |-> "undefined", code |-> 0, origin |-> "none"]

QuietCodec ==
    /\ cdPc = "idle"
    /\ cdCodec = "-"
    /\ cdType = 0
    /\ cdValue = [kind |-> "null", n |-> 0, s |-> <<>>]
    /\ cdBytes = <<>>
    /\ cdDecoded = [kind |-> "null", n |-> 0, s |-> <<>>]

QuietLogger ==
    /\ logs = <<>>
    /\ orderedTransactions = <<>>
    /\ nextId = 1
    /\ maxLogs = 0
    /\ lgCreated = <<>>
    /\ lgLast = "new"
    /\ lgRaised = FALSE

QuietCache ==
    /\ ccPc = "new"
    /\ ccStep = "none"
    /\ ccFlushIndex = 0
    /\ ccEmptyCount = 0
    /\ ccInterval = FALSE
    /\ ccPolls = 0
    /\ ccSetPending = FALSE
    /\ ccCache = [p \in CanonProperties |-> NoValue]
    /\ ccSession = 0
    /\ ccReported = [p \in CanonProperties |-> [value |-> NoValue, session |-> 0]]
    /\ ccLastSender = "none"
    /\ ccGets = 0
    /\ ccGet = [prop |-> NoProp, outcome |-> "none", value |-> NoValue]

QuietWait ==
    /\ cwCache = [p \in CanonProperties |-> NoValue]
    /\ cwCalls = <<>>
    /\ cwNext = 0
    /\ cwPending = [p \in CanonProperties |-> <<>>]
    /\ cwPolled = [p \in CanonProperties |-> NoValue]

QuietSdio ==
    /\ frameSize = 0
    /\ sdCalls = 0
    /\ sdChunk = [header |-> <<>>, payload |-> 0]
    /\ sdReturned = "none"

QuietPause ==
    /\ cpInterval = FALSE
    /\ isPollingPaused = FALSE
    /\ cpCalls = [c \in Callers |-> [method |-> "none", wasPolling |-> FALSE, step |-> 0]]
    /\ cpPolls = 0

QuietSend ==
    /\ svVariant = "listener"
    /\ svConnected = FALSE
    /\ svPc = "idle"
    /\ svStatus = "none"
    /\ svTransfers = 0
    /\ svOutcome = "none"
    /\ svSends = 0

QuietCanon ==
    /\ camPc = "new"
    /\ connStep = "none"
    /\ flushIndex = 0
    /\ emptyCount = 0
    /\ remoteModeEnabled = FALSE
    /\ eventModeEnabled = FALSE
    /\ discStep = "none"
    /\ sessionId = 0
    /\ connSent = <<>>
    /\ connAcked = {}
    /\ connFailed = {}
    /\ returnedEvents = <<>>
    /\ handledEvents = <<>>
    /\ setArg = [prop |-> NoProp, value |-> NoValue]
    /\ freshSet = [p \in Props |-> NoValue]
    /\ eventPollingInterval = FALSE
    /\ pollsInFlight = 0
    /\ setPending = FALSE
    /\ capturePc = 0
    /\ getState = [p \in Props |-> "idle"]
    /\ getValue = [p \in Props |-> NoValue]
    /\ propertyCache = [p \in Props |-> NoValue]
    /\ pendingPropertyRequests = [p \in Props |-> 0]
    /\ queue = <<>>
    /\ inflight = <<>>

(***************************************************************************)
(* Transaction-ID counter                                                  *)
(***************************************************************************)

\* TLC integers are 32 bits wide, so the counter is modelled WordBits wide
\* with the same two's-complement arithmetic the JavaScript operators apply
\* to 32 bits.
WordBits == 8

TwoToW == 2 ^ WordBits

MaxUnsigned == TwoToW - 1

\* ECMAScript ToInt32 (at width WordBits): reduce modulo 2^w, then read the
\* top bit as the sign.
ToInt32(n) ==
    LET m == n % TwoToW
    IN  IF m >= TwoToW \div 2 THEN m - TwoToW ELSE m

\* x & 0xffffffff : both operands go through ToInt32; the mask is all ones,
\* so the result is ToInt32(x).
AndAllOnes(x) == ToInt32(x)

\* getNextTransactionId(): this.transactionId = (this.transactionId + 1) & 0xffffffff
NextTransactionId(id) == AndAllOnes(id + 1)

CallCap == 3

Sat(n) == IF n >= CallCap THEN CallCap ELSE n + 1

InitTxn ==
    /\ QuietTxn
    /\ QuietBulk
    /\ QuietRecv
    /\ QuietListen
    /\ QuietCanon
    /\ QuietSend
    /\ QuietPause
    /\ QuietSdio
    /\ QuietWait
    /\ QuietCache
    /\ QuietLogger
    /\ QuietCodec
    /\ QuietRegistry
    /\ QuietNikon
    /\ QuietPoll
    /\ QuietDecode

GetNextTransactionId ==
    /\ transactionId' = NextTransactionId(transactionId)
    /\ prevId' = transactionId
    /\ issued' = Sat(issued)
    /\ UNCHANGED outsideTxn

NextTxn == GetNextTransactionId

SpecTxn == InitTxn /\ [][NextTxn]_vars

\* C2: the counter yields 1 first, then strictly increasing IDs, every ID in
\* 1..2^w-1 (never 0, never negative), and the ID after 2^w-1 is 1.
C2_IdsPositiveIncreasingWrapToOne ==
    issued > 0 =>
        /\ transactionId \in 1..MaxUnsigned
        /\ issued = 1 => transactionId = 1
        /\ issued > 1 =>
              IF prevId = MaxUnsigned THEN transactionId = 1
              ELSE transactionId > prevId

(***************************************************************************)
(* Bulk steps of the persistent-listener USBTransport: send -> bulkOut,    *)
(* receive -> bulkIn, and STALL recovery (handleStallError).  One action   *)
(* per await of the async functions.                                       *)
(***************************************************************************)

\* status.code === 0x2001
StatusOK == 8193

\* Any Get_Device_Status code other than OK.
StatusOther == StatusOK + 1

StatusCodes == {StatusOK, StatusOther}

\* for (let i = 0; i < 10; i++)
MaxStatusPolls == 10

\* USBInTransferResult.status / USBOutTransferResult.status
TransferStatus == {"ok", "stall", "babble"}

\* Transaction IDs the engine passes to send / receive.
MaxTxn == 2

\* Cap on transfers left pending by timed-out receives.
MaxAbandoned == 1

BULK_IN == "bulk_in"
BULK_OUT == "bulk_out"
INTERRUPT == "interrupt"

\* The EndpointType a step hands to handleStallError.
EndpointTypeOf(kind) ==
    IF kind = "in" THEN BULK_IN
    ELSE IF kind = "out" THEN BULK_OUT
    ELSE INTERRUPT

Issue(req) == usbLog' = Append(usbLog, req)

\* A throw that leaves the async function: the step's promise rejects.
Reject(err) ==
    /\ stepPc' = "rejected"
    /\ stepErr' = err
    /\ raceTimeout' = FALSE

InitBulk ==
    /\ QuietTxn
    /\ QuietBulk
    /\ QuietRecv
    /\ QuietListen
    /\ QuietCanon
    /\ QuietSend
    /\ QuietPause
    /\ QuietSdio
    /\ QuietWait
    /\ QuietCache
    /\ QuietLogger
    /\ QuietCodec
    /\ QuietRegistry
    /\ QuietNikon
    /\ QuietPoll
    /\ QuietDecode

\* connect(): connectDevice() sets endpoints and classRequestHandler, then
\* connected = true.  (The listener it starts is the event pump's part.)
BulkConnect(intr) ==
    /\ stepPc = "idle"
    /\ ~connected
    /\ connected' = TRUE
    /\ endpoints' = TRUE
    /\ hasInterrupt' = intr
    /\ classRequestHandler' = TRUE
    /\ UNCHANGED <<outsideBulk, stepVars, engineVars>>

\* disconnect(): device, endpoints, classRequestHandler = null, connected =
\* false.  The engine's session ends with it.
BulkDisconnect ==
    /\ stepPc = "idle"
    /\ probePc = "none"
    /\ connected
    /\ connected' = FALSE
    /\ endpoints' = FALSE
    /\ hasInterrupt' = FALSE
    /\ classRequestHandler' = FALSE
    /\ session' = "ok"
    /\ UNCHANGED <<outsideBulk, stepVars, txnState, responseCode, cancelledTxn,
                   probePc>>

\* First lines of handleStallError: without a class request handler it
\* throws, otherwise Step 1 issues Get_Device_Status.
EnterStallRecovery ==
    /\ recoveries' = recoveries + 1
    /\ IF ~classRequestHandler
       THEN /\ Reject("no class request handler")
            /\ UNCHANGED usbLog
       ELSE /\ Issue("Get_Device_Status")
            /\ stepPc' = "stall_status"
            /\ raceTimeout' = FALSE
            /\ UNCHANGED stepErr

\* An engine that starts a step whatever the state of the session.
BeginTransactionUnprobed ==
    /\ txnState' = "active"
    /\ responseCode' = "none"
    /\ cancelledTxn' = 0
    /\ UNCHANGED <<session, probePc>>

\* The engine opens a transaction around the step it is about to run; it
\* runs steps only on a session that is not suspect or failed.
BeginTransaction ==
    /\ session = "ok"
    /\ probePc = "none"
    /\ txnState' = "active"
    /\ responseCode' = "none"
    /\ cancelledTxn' = 0
    /\ UNCHANGED <<session, probePc>>

\* A guard that never finds the transport disconnected.
NotConnectedNever == FALSE

\* if (!this.connected || !this.endpoints) throw new Error('Not connected')
NotConnected == ~connected \/ ~endpoints

\* send(data, sessionId, transactionId) -> bulkOut: guard, then transferOut.
Send(txn) ==
    /\ stepPc = "idle"
    /\ stepKind' = "out"
    /\ stepTxn' = txn
    /\ BeginTransaction
    /\ IF NotConnected
       THEN /\ Reject("Not connected")
            /\ UNCHANGED <<usbLog, transfers>>
       ELSE /\ Issue("transferOut")
            /\ transfers' = 1
            /\ stepPc' = "transfer"
            /\ stepErr' = "none"
            /\ raceTimeout' = FALSE
    /\ UNCHANGED <<outsideBulk, linkVars, abandonedReads, pollIndex, lastStatus,
                   results, recoveries>>

\* receive(maxLength, sessionId, transactionId) -> bulkIn: guard, then
\* Promise.race([device.transferIn(...), timeout]).
Receive(txn) ==
    /\ stepPc = "idle"
    /\ stepKind' = "in"
    /\ stepTxn' = txn
    /\ BeginTransaction
    /\ IF NotConnected
       THEN /\ Reject("Not connected")
            /\ UNCHANGED <<usbLog, transfers>>
       ELSE /\ Issue("transferIn")
            /\ transfers' = 1
            /\ stepPc' = "transfer"
            /\ stepErr' = "none"
            /\ raceTimeout' = TRUE
    /\ UNCHANGED <<outsideBulk, linkVars, abandonedReads, pollIndex, lastStatus,
                   results, recoveries>>

\* The listener's interrupt read completed with status 'stall':
\* this.handleStallError(EndpointType.INTERRUPT).
InterruptStall ==
    /\ stepPc = "idle"
    /\ connected /\ hasInterrupt
    /\ stepKind' = "int"
    /\ EnterStallRecovery
    /\ UNCHANGED <<outsideBulk, linkVars, engineVars, stepTxn, abandonedReads,
                   pollIndex, lastStatus, transfers, results>>

\* What bulkOut / bulkIn do with the final transfer result.
FinalResult(status, hasData) ==
    IF status # "ok" \/ (stepKind = "in" /\ ~hasData)
    THEN Reject("transfer failed")
    ELSE /\ stepPc' = "resolved"
         /\ raceTimeout' = FALSE
         /\ UNCHANGED stepErr

\* The first transfer settles before the timeout: a stall starts recovery,
\* any other result is final.
TransferDone(status, hasData) ==
    /\ stepPc = "transfer"
    /\ results' = Append(results, status)
    /\ IF status = "stall"
       THEN EnterStallRecovery
       ELSE /\ FinalResult(status, hasData)
            /\ UNCHANGED <<recoveries, usbLog>>
    /\ UNCHANGED <<outsideBulk, linkVars, engineVars, stepKind, stepTxn,
                   abandonedReads, pollIndex, lastStatus, transfers>>

\* device.transferOut / transferIn rejects (a libusb error).
TransferThrows ==
    /\ stepPc \in {"transfer", "retry"}
    /\ Reject("transfer error")
    /\ UNCHANGED <<outsideBulk, linkVars, engineVars, stepKind, stepTxn,
                   abandonedReads, pollIndex, lastStatus, transfers, results,
                   recoveries, usbLog>>

\* The 5 s timer fires first: the race rejects, bulkIn throws.  The
\* transferIn promise itself stays pending.
ReadTimeout ==
    /\ stepPc = "transfer"
    /\ raceTimeout
    /\ abandonedReads < MaxAbandoned
    /\ Reject("timeout")
    /\ abandonedReads' = abandonedReads + 1
    /\ UNCHANGED <<outsideBulk, linkVars, engineVars, stepKind, stepTxn,
                   pollIndex, lastStatus, transfers, results, recoveries, usbLog>>

\* A transfer left behind by a timed-out receive completes at last.
AbandonedReadCompletes ==
    /\ abandonedReads > 0
    /\ abandonedReads' = abandonedReads - 1
    /\ UNCHANGED <<outsideBulk, linkVars, engineVars, stepKind, stepPc, stepErr,
                   stepTxn, raceTimeout, pollIndex, lastStatus, transfers, results,
                   recoveries, usbLog>>

\* Variation: Clear_Halt on the stalled endpoint alone.
FirstClearHaltStalledOnly(endpointType) ==
    IF endpointType = BULK_IN
    THEN /\ Issue("Clear_Halt bulkIn")
         /\ stepPc' = "stall_clear_last"
    ELSE IF endpointType = BULK_OUT
    THEN /\ Issue("Clear_Halt bulkOut")
         /\ stepPc' = "stall_clear_last"
    ELSE /\ Issue("Clear_Halt interrupt")
         /\ stepPc' = "stall_clear_last"

\* Step 2 of handleStallError: which endpoint is cleared first.
FirstClearHalt(endpointType) ==
    IF endpointType \in {BULK_IN, BULK_OUT}
    THEN /\ Issue("Clear_Halt bulkIn")
         /\ stepPc' = "stall_clear_in"
    ELSE IF endpointType = INTERRUPT /\ hasInterrupt
    THEN /\ Issue("Clear_Halt interrupt")
         /\ stepPc' = "stall_clear_last"
    ELSE /\ Issue("Get_Device_Status")
         /\ stepPc' = "stall_poll"

\* Step 1 answered: initialStatus is only logged, Step 2 starts.
StallStatusDone(code) ==
    /\ stepPc = "stall_status"
    /\ lastStatus' = code
    /\ FirstClearHalt(EndpointTypeOf(stepKind))
    /\ UNCHANGED <<outsideBulk, linkVars, engineVars, stepKind, stepErr, stepTxn,
                   raceTimeout, abandonedReads, pollIndex, transfers, results,
                   recoveries>>

\* clearHalt returned: the second bulk endpoint, or Step 3's first poll.
ClearHaltDone ==
    /\ stepPc \in {"stall_clear_in", "stall_clear_last"}
    /\ IF stepPc = "stall_clear_in"
       THEN /\ Issue("Clear_Halt bulkOut")
            /\ stepPc' = "stall_clear_last"
       ELSE /\ Issue("Get_Device_Status")
            /\ stepPc' = "stall_poll"
    /\ UNCHANGED <<outsideBulk, linkVars, engineVars, stepKind, stepErr, stepTxn,
                   raceTimeout, abandonedReads, pollIndex, lastStatus,
                   transfers, results, recoveries>>

\* getDeviceStatus or clearHalt rejects inside handleStallError: nothing
\* catches it, so the step is rejected.
RecoveryThrows ==
    /\ stepPc \in {"stall_status", "stall_clear_in", "stall_clear_last",
                   "stall_poll"}
    /\ Reject("recovery request failed")
    /\ UNCHANGED <<outsideBulk, linkVars, engineVars, stepKind, stepTxn,
                   abandonedReads, pollIndex, lastStatus, transfers, results,
                   recoveries, usbLog>>

\* handleStallError returned: bulkOut / bulkIn re-issue the transfer (no
\* timeout race this time); the listener restarts elsewhere.
RetryTransfer ==
    IF stepKind = "int"
    THEN /\ stepPc' = "resolved"
         /\ UNCHANGED <<transfers, usbLog>>
    ELSE /\ stepPc' = "retry"
         /\ transfers' = transfers + 1
         /\ Issue(IF stepKind = "out" THEN "transferOut" ELSE "transferIn")

\* One poll of Step 3 answered: 0x2001 returns, anything else sleeps 50 ms.
StallPollDone(code) ==
    /\ stepPc = "stall_poll"
    /\ lastStatus' = code
    /\ IF code = StatusOK
       THEN RetryTransfer
       ELSE /\ stepPc' = "stall_sleep"
            /\ UNCHANGED <<transfers, usbLog>>
    /\ UNCHANGED <<outsideBulk, linkVars, engineVars, stepKind, stepErr, stepTxn,
                   raceTimeout, abandonedReads, pollIndex, results, recoveries>>

\* Variation: the poll loop runs once more (i <= 10).
StallSleepDoneOffByOne ==
    /\ stepPc = "stall_sleep"
    /\ pollIndex' = pollIndex + 1
    /\ IF pollIndex + 1 <= MaxStatusPolls
       THEN /\ Issue("Get_Device_Status")
            /\ stepPc' = "stall_poll"
            /\ UNCHANGED <<stepErr, raceTimeout>>
       ELSE /\ Reject("recovery failed")
            /\ UNCHANGED usbLog
    /\ UNCHANGED <<outsideBulk, linkVars, engineVars, stepKind, stepTxn,
                   abandonedReads, lastStatus, transfers, results, recoveries>>

\* The 50 ms sleep ends: i++, then the next poll or, after the last one,
\* throw 'Device did not return OK after STALL recovery'.
StallSleepDone ==
    /\ stepPc = "stall_sleep"
    /\ pollIndex' = pollIndex + 1
    /\ IF pollIndex + 1 < MaxStatusPolls
       THEN /\ Issue("Get_Device_Status")
            /\ stepPc' = "stall_poll"
            /\ UNCHANGED <<stepErr, raceTimeout>>
       ELSE /\ Reject("recovery failed")
            /\ UNCHANGED usbLog
    /\ UNCHANGED <<outsideBulk, linkVars, engineVars, stepKind, stepTxn,
                   abandonedReads, lastStatus, transfers, results, recoveries>>

\* Variation: a stall of the retried transfer starts recovery again.
RetryDoneRecoversAgain(status, hasData) ==
    /\ stepPc = "retry"
    /\ results' = Append(results, status)
    /\ IF status = "stall"
       THEN EnterStallRecovery
       ELSE /\ FinalResult(status, hasData)
            /\ UNCHANGED <<recoveries, usbLog>>
    /\ UNCHANGED <<outsideBulk, linkVars, engineVars, stepKind, stepTxn,
                   abandonedReads, pollIndex, lastStatus, transfers>>

\* The retried transfer settles: its result is final.
RetryDone(status, hasData) ==
    /\ stepPc = "retry"
    /\ results' = Append(results, status)
    /\ FinalResult(status, hasData)
    /\ UNCHANGED <<outsideBulk, linkVars, engineVars, stepKind, stepTxn,
                   abandonedReads, pollIndex, lastStatus, transfers,
                   recoveries, usbLog>>

\* Variation: Cancel_Request without the transaction's ID.
CancelRequestIdZero(txn) == 0

\* cancelRequest(transactionId): the ID handed to the class request handler.
CancelRequestId(txn) == txn

\* cancelRequest(transactionId): throws without a class request handler,
\* otherwise issues the Cancel_Request class request.
CancelRequest(txn) ==
    IF ~classRequestHandler
    THEN UNCHANGED <<usbLog, cancelledTxn>>
    ELSE /\ Issue("Cancel_Request")
         /\ cancelledTxn' = CancelRequestId(txn)

\* The step errors the engine takes as transport errors (a STALL that
\* survives recovery, a failed transfer); the read timeout has its own
\* reaction below.
TransportErrors ==
    {"transfer failed", "transfer error", "recovery request failed",
     "recovery failed", "no class request handler"}

\* The engine's reaction to a read timeout: Cancel_Request for the
\* transaction, which ends FAILED with ResponseCode = OperationCanceled.
EngineOnTimeout ==
    /\ stepPc = "rejected" /\ stepErr = "timeout"
    /\ txnState = "active"
    /\ CancelRequest(stepTxn)
    /\ txnState' = "FAILED"
    /\ responseCode' = "OperationCanceled"
    /\ session' = "suspect"
    /\ UNCHANGED probePc
    /\ UNCHANGED <<outsideBulk, linkVars, stepKind, stepPc, stepErr, stepTxn,
                   raceTimeout, abandonedReads, pollIndex, lastStatus,
                   transfers, results, recoveries>>

\* The engine's reaction to any other rejected step (a transport error) and
\* to a resolved one.
EngineOnSettled ==
    /\ stepKind \in {"out", "in"}
    /\ txnState = "active"
    /\ \/ /\ stepPc = "rejected" /\ stepErr # "timeout"
          /\ txnState' = "FAILED"
          /\ session' = IF stepErr \in TransportErrors THEN "suspect" ELSE session
       \/ /\ stepPc = "resolved"
          /\ txnState' = "DONE"
          /\ UNCHANGED session
    /\ UNCHANGED <<outsideBulk, linkVars, stepVars, responseCode, cancelledTxn,
                   probePc>>

\* The next operation on a suspect session: the engine first asks for the
\* device status (transport.getDeviceStatus()).
EngineProbe ==
    /\ stepPc = "idle"
    /\ session = "suspect"
    /\ probePc = "none"
    /\ probePc' = "status"
    /\ UNCHANGED <<outsideBulk, linkVars, stepVars, txnState, responseCode,
                   cancelledTxn, session>>

\* The probe settles: getDeviceStatus() throws without a class request
\* handler, or the request fails, or the device answers.
EngineProbeDone(answered) ==
    /\ probePc = "status"
    /\ probePc' = "none"
    /\ session' = IF classRequestHandler /\ answered THEN "ok" ELSE "failed"
    /\ UNCHANGED <<outsideBulk, linkVars, stepVars, txnState, responseCode,
                   cancelledTxn>>

\* An operation called on a failed session is rejected before any step.
EngineFailFast(kind, txn) ==
    /\ stepPc = "idle"
    /\ session = "failed"
    /\ stepKind' = kind
    /\ stepTxn' = txn
    /\ Reject("session failed")
    /\ txnState' = "FAILED"
    /\ UNCHANGED <<outsideBulk, linkVars, abandonedReads, pollIndex, lastStatus,
                   transfers, results, recoveries, usbLog, responseCode,
                   cancelledTxn, session, probePc>>

\* The caller has its result; the next step may start.
Settle ==
    /\ stepPc \in {"resolved", "rejected"}
    /\ txnState # "active"
    /\ stepKind' = "none"
    /\ stepPc' = "idle"
    /\ stepErr' = "none"
    /\ stepTxn' = 0
    /\ raceTimeout' = FALSE
    /\ pollIndex' = 0
    /\ lastStatus' = 0
    /\ transfers' = 0
    /\ results' = <<>>
    /\ recoveries' = 0
    /\ usbLog' = <<>>
    /\ txnState' = "idle"
    /\ responseCode' = "none"
    /\ cancelledTxn' = 0
    /\ UNCHANGED <<outsideBulk, linkVars, abandonedReads, session, probePc>>

NextBulk ==
    \/ \E intr \in BOOLEAN : BulkConnect(intr)
    \/ BulkDisconnect
    \/ \E txn \in 1..MaxTxn : Send(txn)
    \/ \E txn \in 1..MaxTxn : Receive(txn)
    \/ InterruptStall
    \/ \E status \in TransferStatus, hasData \in BOOLEAN : TransferDone(status, hasData)
    \/ TransferThrows
    \/ ReadTimeout
    \/ AbandonedReadCompletes
    \/ \E code \in StatusCodes : StallStatusDone(code)
    \/ ClearHaltDone
    \/ RecoveryThrows
    \/ \E code \in StatusCodes : StallPollDone(code)
    \/ StallSleepDone
    \/ \E status \in TransferStatus, hasData \in BOOLEAN : RetryDone(status, hasData)
    \/ EngineOnTimeout
    \/ EngineOnSettled
    \/ EngineProbe
    \/ \E answered \in BOOLEAN : EngineProbeDone(answered)
    \/ \E kind \in {"out", "in"}, txn \in 1..MaxTxn : EngineFailFast(kind, txn)
    \/ Settle

SpecBulk == InitBulk /\ [][NextBulk]_vars

(***************************************************************************)
(* Properties of the bulk steps                                            *)
(***************************************************************************)

StatusRequests == Cardinality({i \in DOMAIN usbLog : usbLog[i] = "Get_Device_Status"})

ClearHaltRequests == {"Clear_Halt bulkIn", "Clear_Halt bulkOut", "Clear_Halt interrupt"}

ClearedEndpoints == {usbLog[i] : i \in DOMAIN usbLog} \cap ClearHaltRequests

BulkTransferRequests == {"transferIn", "transferOut"}

RecoveryErrors == {"no class request handler", "recovery request failed", "recovery failed"}

\* C3: a stalled bulk-OUT or bulk-IN transfer gets one STALL recovery and,
\* once recovery has returned, exactly one retry; a retried transfer that
\* stalls again or ends non-ok fails the step, with no second recovery and
\* no third transfer.
C3_StallRetriedOnce ==
    stepKind \in {"out", "in"} =>
        /\ recoveries <= 1
        /\ transfers <= 2
        /\ Len(results) <= 2
        /\ recoveries = 1 <=> (results # <<>> /\ results[1] = "stall")
        /\ transfers = 2 => recoveries = 1
        /\ (recoveries = 1 /\ stepPc \in {"resolved", "rejected"}
              /\ stepErr \notin RecoveryErrors) => transfers = 2
        /\ stepPc = "retry" => (transfers = 2 /\ Len(results) = 1)
        /\ Len(results) = 2 =>
              /\ stepPc \in {"resolved", "rejected"}
              /\ results[2] # "ok" => stepPc = "rejected"
              /\ StatusRequests = Cardinality({i \in DOMAIN usbLog :
                     usbLog[i] = "Get_Device_Status" /\ i < Len(usbLog)})
        /\ stepPc = "resolved" => results[Len(results)] = "ok"

\* C3 witness: the retried transfer stalled again and the step failed.
C3_Witness ==
    /\ stepKind \in {"out", "in"}
    /\ Len(results) = 2
    /\ results[2] = "stall"
    /\ stepPc = "rejected"

InRecovery == stepPc \in {"stall_status", "stall_clear_in", "stall_clear_last",
                          "stall_poll", "stall_sleep"}

\* Steps handleStallError has left before it must return or throw.
RecoveryMeasure ==
    IF stepPc = "stall_status" THEN 2 * MaxStatusPolls + 3
    ELSE IF stepPc = "stall_clear_in" THEN 2 * MaxStatusPolls + 2
    ELSE IF stepPc = "stall_clear_last" THEN 2 * MaxStatusPolls + 1
    ELSE IF stepPc = "stall_poll" THEN 2 * (MaxStatusPolls - pollIndex)
    ELSE IF stepPc = "stall_sleep" THEN 2 * (MaxStatusPolls - pollIndex) - 1
    ELSE 0

C5_PollBound ==
    /\ pollIndex <= MaxStatusPolls
    /\ stepPc = "stall_poll" => pollIndex < MaxStatusPolls
    /\ StatusRequests <= MaxStatusPolls + 1
    /\ stepPc = "stall_sleep" => lastStatus # StatusOK
    /\ (stepPc = "stall_poll" /\ pollIndex > 0) => lastStatus # StatusOK
    /\ stepErr = "recovery failed" =>
          /\ pollIndex = MaxStatusPolls
          /\ StatusRequests = MaxStatusPolls + 1
          /\ lastStatus # StatusOK
          /\ stepPc = "rejected"
          /\ transfers <= 1
    /\ InRecovery => RecoveryMeasure > 0

\* C5: STALL recovery polls Get_Device_Status at most 10 times, stops at the
\* first 0x2001, fails without a retry when all 10 polls are not OK, and
\* terminates: every step of a running recovery lowers RecoveryMeasure.
C5_PollsBoundedAndTerminates ==
    /\ []C5_PollBound
    /\ [][(InRecovery /\ InRecovery') => RecoveryMeasure' < RecoveryMeasure]_<<stepPc, pollIndex>>

\* C5 witness: ten polls were not OK and recovery failed.
C5_Witness ==
    /\ stepErr = "recovery failed"
    /\ StatusRequests = MaxStatusPolls + 1

\* C8: every bulk-IN transfer receive waits for races the read timeout,
\* the one re-issued after STALL recovery included.
C8_EveryBulkInRacesTimeout ==
    (stepKind = "in" /\ stepPc \in {"transfer", "retry"}) => raceTimeout

\* The bulk-IN transfers pending on the device: the one the running receive
\* waits for, and those left behind by receives that timed out.
BulkInOutstanding ==
    abandonedReads + (IF stepKind = "in" /\ stepPc \in {"transfer", "retry"} THEN 1 ELSE 0)

\* C37: at most one bulk-IN transfer is outstanding at any time; no transfer
\* of a timed-out receive is still pending when the next receive issues its
\* own.
C37_OneBulkInOutstanding == BulkInOutstanding <= 1

C16_NotConnectedAfterDisconnect ==
    (~connected /\ stepKind \in {"out", "in"}) =>
        /\ stepPc = "rejected"
        /\ stepErr = "Not connected"
        /\ transfers = 0
        /\ usbLog = <<>>

\* A receive was called after a disconnect(): a read abandoned on the
\* closed connection is still around.
C16_Witness ==
    /\ ~connected
    /\ abandonedReads > 0
    /\ stepKind = "in"
    /\ stepErr = "Not connected"

HeaderSize == 12

\* const CHUNK_SIZE = 64 * 1024
CHUNK_SIZE == 64 * 1024

\* Largest payload, and largest padding after the container, the device holds.
MaxPayload == 3

MaxPadding == 1

MaxContainer == HeaderSize + MaxPayload

MaxStream == MaxContainer + MaxPadding

\* Length fields a header may carry: everything up to the largest container
\* (values below the header size included) and one value above 255.
LengthFields == (0..MaxContainer) \cup {256 + HeaderSize}

\* maxLength arguments of receive().
MaxLengthArgs == {HeaderSize, CHUNK_SIZE}

Min(a, b) == IF a < b THEN a ELSE b

\* Byte k (0 = least significant) of an unsigned 32-bit value.
ByteOf(n, k) == (n \div (256 ^ k)) % 256

\* The stream of a device that sends a container with length field len and
\* holds n bytes in all; the bytes after the length field are told apart by
\* their position.
MakeStream(len, n) ==
    [i \in 1..n |-> IF i <= 4 THEN ByteOf(len, i - 1) ELSE i]

\* view.getUint32(0, true)
GetUint32LE(data) ==
    data[1] + 256 * data[2] + 65536 * data[3] + 16777216 * data[4]

\* Uint8Array.prototype.slice(0, end)
Slice(data, end) == SubSeq(data, 1, Min(end, Len(data)))

\* The framer without its check of the length field.
ParseContainerNoLengthCheck(data, frameCheck) ==
    /\ Len(data) >= HeaderSize
    /\ frameCheck => Len(data) >= GetUint32LE(data)

\* USBContainerBuilder.parseContainer(data) returns instead of throwing:
\* the header is present and its length field is at least the header size.
\* frameCheck tells whether this framer also rejects a frame shorter than
\* its length field.
ParseContainerAccepts(data, frameCheck) ==
    /\ Len(data) >= HeaderSize
    /\ GetUint32LE(data) >= HeaderSize
    /\ frameCheck => Len(data) >= GetUint32LE(data)

InitRecv ==
    /\ QuietTxn
    /\ QuietBulk
    /\ QuietListen
    /\ QuietCanon
    /\ QuietSend
    /\ QuietPause
    /\ QuietSdio
    /\ QuietWait
    /\ QuietCache
    /\ QuietLogger
    /\ QuietCodec
    /\ QuietRegistry
    /\ QuietNikon
    /\ QuietPoll
    /\ QuietDecode
    /\ recvVariant = "none"
    /\ \E len \in LengthFields, n \in 0..MaxStream : stream = MakeStream(len, n)
    /\ devPos = 0
    /\ recvPc = "idle"
    /\ requested = 0
    /\ reads = 0
    /\ firstLen = -1
    /\ containerLength = 0
    /\ received = <<>>
    /\ terminated = FALSE
    /\ returned = <<>>
    /\ recvErr = "none"

\* Byte counts a transferIn asking for `requested` bytes can complete with.
Deliverable == 0..Min(requested, Len(stream) - devPos)

\* The bytes of a read that returns k bytes.
Chunk(k) == SubSeq(stream, devPos + 1, devPos + k)

RecvReject(err) ==
    /\ recvPc' = "rejected"
    /\ recvErr' = err
    /\ UNCHANGED returned

RecvResolve(data) ==
    /\ recvPc' = "resolved"
    /\ returned' = data
    /\ UNCHANGED recvErr

\* bulkIn of usb-transport.ts up to its first await:
\* device.transferIn(endpoint, CHUNK_SIZE).
ChunkedBulkIn ==
    /\ recvPc = "idle"
    /\ recvVariant' = "chunked"
    /\ requested' = CHUNK_SIZE
    /\ reads' = 1
    /\ recvPc' = "first"
    /\ UNCHANGED <<outsideRecv, stream, devPos, firstLen, containerLength,
                   received, terminated, returned, recvErr>>

\* Tail of the chunking bulkIn: parseContainer(completeData), then
\* completeData.slice(0, Math.min(containerLength, completeData.length)).
ChunkedFinish(completeData, length, frameCheck) ==
    IF ParseContainerAccepts(completeData, frameCheck)
    THEN RecvResolve(Slice(completeData, Min(length, Len(completeData))))
    ELSE RecvReject("invalid container")

\* The first read completes.
ChunkedFirstDone(status, k, frameCheck) ==
    /\ recvPc = "first"
    /\ k \in Deliverable
    /\ devPos' = devPos + k
    /\ terminated' = (k = 0)
    /\ IF status # "ok"
       THEN /\ RecvReject("transfer failed")
            /\ UNCHANGED <<firstLen, containerLength, received, requested, reads>>
       ELSE /\ firstLen' = k
            /\ received' = Chunk(k)
            /\ IF k < HeaderSize
               THEN /\ RecvReject("Container too short")
                    /\ UNCHANGED <<containerLength, requested, reads>>
               ELSE /\ containerLength' = GetUint32LE(Chunk(k))
                    /\ IF k >= containerLength'
                       THEN /\ IF ParseContainerAccepts(Chunk(k), frameCheck)
                               THEN RecvResolve(Slice(Chunk(k), containerLength'))
                               ELSE RecvReject("invalid container")
                            /\ UNCHANGED <<requested, reads>>
                       ELSE /\ requested' = Min(containerLength' - k, CHUNK_SIZE)
                            /\ reads' = reads + 1
                            /\ recvPc' = "more"
                            /\ UNCHANGED <<returned, recvErr>>
    /\ UNCHANGED <<outsideRecv, recvVariant, stream>>

\* A read of the while loop completes.
ChunkedNextDone(status, k, frameCheck) ==
    /\ recvPc = "more"
    /\ k \in Deliverable
    /\ devPos' = devPos + k
    /\ terminated' = (terminated \/ k = 0)
    /\ IF status # "ok"
       THEN /\ RecvReject("transfer failed")
            /\ UNCHANGED <<received, requested, reads>>
       ELSE IF k = 0
       THEN /\ ChunkedFinish(received, containerLength, frameCheck)
            /\ UNCHANGED <<received, requested, reads>>
       ELSE /\ received' = received \o Chunk(k)
            /\ IF Len(received') < containerLength
               THEN /\ requested' = Min(containerLength - Len(received'), CHUNK_SIZE)
                    /\ reads' = reads + 1
                    /\ UNCHANGED <<recvPc, returned, recvErr>>
               ELSE /\ ChunkedFinish(received', containerLength, frameCheck)
                    /\ UNCHANGED <<requested, reads>>
    /\ UNCHANGED <<outsideRecv, recvVariant, stream, firstLen, containerLength>>

\* bulkIn of the persistent-listener transport up to its first await:
\* device.transferIn(endpointAddr, maxLength).
SingleBulkIn(maxLength) ==
    /\ recvPc = "idle"
    /\ recvVariant' = "single"
    /\ requested' = maxLength
    /\ reads' = 1
    /\ recvPc' = "single"
    /\ UNCHANGED <<outsideRecv, stream, devPos, firstLen, containerLength,
                   received, terminated, returned, recvErr>>

\* Its only read completes: status and byteLength check, parseContainer,
\* return data.
SingleDone(status, k, frameCheck) ==
    /\ recvPc = "single"
    /\ k \in Deliverable
    /\ devPos' = devPos + k
    /\ terminated' = (k = 0)
    /\ IF status # "ok" \/ k = 0
       THEN /\ RecvReject("transfer failed")
            /\ UNCHANGED <<firstLen, received>>
       ELSE /\ firstLen' = k
            /\ received' = Chunk(k)
            /\ IF ParseContainerAccepts(Chunk(k), frameCheck)
               THEN RecvResolve(Chunk(k))
               ELSE RecvReject("invalid container")
    /\ UNCHANGED <<outsideRecv, recvVariant, stream, requested, reads,
                   containerLength>>

ReadStatus == {"ok", "babble"}

NextRecv ==
    \/ ChunkedBulkIn
    \/ \E status \in ReadStatus, k \in 0..MaxStream, frameCheck \in BOOLEAN :
          ChunkedFirstDone(status, k, frameCheck)
    \/ \E status \in ReadStatus, k \in 0..MaxStream, frameCheck \in BOOLEAN :
          ChunkedNextDone(status, k, frameCheck)
    \/ \E maxLength \in MaxLengthArgs : SingleBulkIn(maxLength)
    \/ \E status \in ReadStatus, k \in 0..MaxStream, frameCheck \in BOOLEAN :
          SingleDone(status, k, frameCheck)

SpecRecv == InitRecv /\ [][NextRecv]_vars

\* The length field of the container the device sends.
HeaderLength == GetUint32LE(stream)

\* C6: when the first read is shorter than the header's length field and the
\* device supplies that many bytes (all reads ok, none of them empty),
\* bulkIn ends by returning exactly the first `length` bytes of the stream.
C6_ShortFirstReadIsCompleted ==
    (/\ recvPc \in {"resolved", "rejected"}
     /\ recvErr # "transfer failed"
     /\ ~terminated
     /\ firstLen >= HeaderSize
     /\ HeaderLength >= HeaderSize
     /\ firstLen < HeaderLength
     /\ Len(stream) >= HeaderLength)
    => /\ recvPc = "resolved"
       /\ returned = SubSeq(stream, 1, HeaderLength)

MaxOutstanding == 2

\* Cap on the interrupt reads that complete with data.
MaxEvents == 2

InitListen ==
    /\ QuietTxn
    /\ QuietBulk
    /\ QuietRecv
    /\ QuietListen
    /\ QuietCanon
    /\ QuietSend
    /\ QuietPause
    /\ QuietSdio
    /\ QuietWait
    /\ QuietCache
    /\ QuietLogger
    /\ QuietCodec
    /\ QuietRegistry
    /\ QuietNikon
    /\ QuietPoll
    /\ QuietDecode

\* startListeningForEvents() called with isListeningForEvents = flag while
\* `pending` reads are outstanding: the guard, then flag = true and one
\* device.transferIn on the interrupt endpoint.
StartListeningForEvents(conn, intr, flag, pending) ==
    IF ~conn \/ ~intr \/ flag
    THEN /\ isListeningForEvents' = flag
         /\ pendingReads' = pending
    ELSE /\ pending + restartTimers < MaxOutstanding
         /\ isListeningForEvents' = TRUE
         /\ pendingReads' = pending + 1

\* A restart that does not look at the flag.
RestartListeningUnconditionally(pending) ==
    StartListeningForEvents(connected, hasInterrupt, FALSE, pending)

\* if (this.isListeningForEvents) { this.isListeningForEvents = false;
\*                                  this.startListeningForEvents() }
RestartListening(pending) ==
    IF isListeningForEvents
    THEN StartListeningForEvents(connected, hasInterrupt, FALSE, pending)
    ELSE /\ pendingReads' = pending
         /\ UNCHANGED isListeningForEvents

\* connect() up to its first await: the flag is cleared before the
\* 'Already connected' check.
Connect ==
    /\ connPc = "idle"
    /\ isListeningForEvents' = FALSE
    /\ connPc' = IF connected THEN "idle" ELSE "finding"
    /\ UNCHANGED <<outsideListen, eventVars, linkVars, eventHandlers, pendingReads,
                   restartTimers, stopPc, discPc, recPc, recIndex, notified>>

\* The device finder answers: no device throws 'Device not found'.
ConnectFound(found) ==
    /\ connPc = "finding"
    /\ connPc' = IF found THEN "opening" ELSE "idle"
    /\ UNCHANGED <<outsideListen, eventVars, linkVars, isListeningForEvents, eventHandlers,
                   pendingReads, restartTimers, stopPc, discPc, recPc, recIndex,
                   notified>>

ConnectOutcomes == {"ok", "open failed", "no interface"}

\* connectDevice() ends; on success connected = true and, with an interrupt
\* endpoint, startListeningForEvents().
ConnectDeviceDone(outcome, intr) ==
    /\ connPc = "opening"
    /\ connPc' = "idle"
    /\ IF outcome = "open failed"
       THEN UNCHANGED <<linkVars, isListeningForEvents, pendingReads, settledAfterStop>>
       ELSE IF outcome = "no interface"
       THEN /\ endpoints' = TRUE
            /\ hasInterrupt' = intr
            /\ UNCHANGED <<connected, classRequestHandler, isListeningForEvents,
                           pendingReads, settledAfterStop>>
       ELSE /\ endpoints' = TRUE
            /\ hasInterrupt' = intr
            /\ classRequestHandler' = TRUE
            /\ connected' = TRUE
            /\ settledAfterStop' = FALSE
            /\ StartListeningForEvents(TRUE, intr, isListeningForEvents, pendingReads)
    /\ UNCHANGED <<outsideListen, eventsRead, delivered, atDispatch, subscribed,
                   malformed, unhandled, eventHandlers, restartTimers, stopPc, discPc,
                   recPc, recIndex, notified>>

\* stopEventListening() up to its first await: flag = false, then clearHalt
\* on the interrupt endpoint if there is one.
StopBody ==
    /\ isListeningForEvents' = FALSE
    /\ stopPc' = IF hasInterrupt THEN "clearHalt" ELSE "idle"

StopEventListening ==
    /\ stopPc = "idle" /\ discPc = "idle"
    /\ StopBody
    /\ UNCHANGED <<outsideListen, eventVars, linkVars, eventHandlers, pendingReads,
                   restartTimers, connPc, discPc, recPc, recIndex, notified>>

\* disconnect() of a connected transport up to its first await
\* (a transport that is not connected returns at once).
Disconnect ==
    /\ discPc = "idle" /\ stopPc = "idle"
    /\ connected
    /\ StopBody
    /\ discPc' = IF hasInterrupt THEN "stopping" ELSE "closing"
    /\ UNCHANGED <<outsideListen, eventVars, linkVars, eventHandlers, pendingReads,
                   restartTimers, connPc, recPc, recIndex, notified>>

\* clearHalt returned or threw (the error is caught): sleep 100 ms.
StopClearHaltDone ==
    /\ stopPc = "clearHalt"
    /\ stopPc' = "wait"
    /\ UNCHANGED <<outsideListen, eventVars, linkVars, isListeningForEvents, eventHandlers,
                   pendingReads, restartTimers, connPc, discPc, recPc, recIndex,
                   notified>>

\* The 100 ms sleep ends.  A restart timer of the listener, also 100 ms, was
\* set before it (timers are set only while the flag is true) and has fired.
StopWaitDone ==
    /\ stopPc = "wait"
    /\ restartTimers = 0
    /\ stopPc' = "idle"
    /\ discPc' = IF discPc = "stopping" THEN "closing" ELSE discPc
    /\ UNCHANGED <<outsideListen, eventVars, linkVars, isListeningForEvents, eventHandlers,
                   pendingReads, restartTimers, connPc, recPc, recIndex, notified>>

\* device.close() settles.  Closing ends the transfers and control requests
\* still pending on the device (their callbacks find the flag false); then
\* device, endpoints, classRequestHandler = null, connected = false,
\* eventHandlers.clear().  A close() that throws leaves all of that undone.
DisconnectCloseDone(ok) ==
    /\ discPc = "closing"
    /\ discPc' = "idle"
    /\ IF ok
       THEN /\ connected' = FALSE
            /\ endpoints' = FALSE
            /\ hasInterrupt' = FALSE
            /\ classRequestHandler' = FALSE
            /\ eventHandlers' = <<>>
            /\ subscribed' = {}
            /\ pendingReads' = 0
            /\ recPc' = IF recPc \in {"status", "clear", "poll"} THEN "none" ELSE recPc
            /\ recIndex' = IF recPc \in {"status", "clear", "poll"} THEN 0 ELSE recIndex
       ELSE UNCHANGED <<linkVars, eventHandlers, subscribed, pendingReads, recPc,
                        recIndex>>
    /\ UNCHANGED <<outsideListen, settledAfterStop, isListeningForEvents, restartTimers, connPc,
                   stopPc, notified, eventsRead, delivered, atDispatch, malformed,
                   unhandled>>

\* The members of the Set eventHandlers; the sequence keeps the insertion
\* order Set.forEach visits them in.
Registered == {eventHandlers[k] : k \in DOMAIN eventHandlers}

\* A delete that leaves the member in place.
SetDeleteKeeps(handlers, handler) == handlers

\* Set.delete
SetDelete(handlers, handler) == SelectSeq(handlers, LAMBDA x : x # handler)

\* eventHandlers.add(handler), for a handler that is not a member yet.
OnEvent(handler) ==
    /\ handler \notin Registered
    /\ eventHandlers' = Append(eventHandlers, handler)
    /\ subscribed' = subscribed \cup {handler}
    /\ UNCHANGED <<outsideListen, settledAfterStop, linkVars, isListeningForEvents, pendingReads,
                   restartTimers, connPc, stopPc, discPc, recPc, recIndex, notified,
                   eventsRead, delivered, atDispatch, malformed, unhandled>>

\* eventHandlers.delete(handler), for a member.
OffEvent(handler) ==
    /\ handler \in Registered
    /\ eventHandlers' = SetDelete(eventHandlers, handler)
    /\ subscribed' = subscribed \ {handler}
    /\ UNCHANGED <<outsideListen, settledAfterStop, linkVars, isListeningForEvents, pendingReads,
                   restartTimers, connPc, stopPc, discPc, recPc, recIndex, notified,
                   eventsRead, delivered, atDispatch, malformed, unhandled>>

\* A catch branch that sets no timer.
ScheduleNoRestart == UNCHANGED restartTimers

\* The catch branch for an error other than a cancelled transfer: with the
\* flag set, a 100 ms timer that restarts the listener.
ScheduleRestart ==
    restartTimers' = IF isListeningForEvents THEN restartTimers + 1 ELSE restartTimers

\* eventHandlers.forEach(handler => { handler(event) }) where the handler at
\* position `thrower` throws (0: none does): the handlers forEach got to.
Invoked(thrower) ==
    {eventHandlers[k] : k \in 1..(IF thrower = 0 THEN Len(eventHandlers) ELSE thrower)}

\* handleInterruptData(data) for the bytes of event n: parseEvent throws on
\* bytes that are no EVENT container, else the event goes to the handlers.
HandleInterruptData(n, wellFormed, thrower) ==
    IF wellFormed
    THEN /\ delivered' = [h \in Handlers |->
                             IF h \in Invoked(thrower)
                             THEN Append(delivered[h], n) ELSE delivered[h]]
         /\ atDispatch' = Registered
         /\ notified' = Invoked(thrower)
         /\ UNCHANGED malformed
    ELSE /\ malformed' = malformed \cup {n}
         /\ UNCHANGED <<delivered, atDispatch, notified>>

\* A read resolves with status ok and data: handleInterruptData, then the
\* listener restarts.  When handleInterruptData throws (parseEvent or a
\* handler, each an Error), the promise chain lands in the catch branch
\* instead.
InterruptReadData(wellFormed, thrower) ==
    /\ pendingReads > 0
    /\ settledAfterStop' = (settledAfterStop \/ ~isListeningForEvents)
    /\ hasInterrupt
    /\ eventsRead < MaxEvents
    /\ eventsRead' = eventsRead + 1
    /\ HandleInterruptData(eventsRead + 1, wellFormed, thrower)
    /\ IF wellFormed /\ thrower = 0
       THEN /\ RestartListening(pendingReads - 1)
            /\ UNCHANGED restartTimers
       ELSE /\ pendingReads' = pendingReads - 1
            /\ ScheduleRestart
            /\ UNCHANGED isListeningForEvents
    /\ UNCHANGED <<outsideListen, linkVars, eventHandlers, connPc, stopPc, discPc,
                   recPc, recIndex, subscribed, unhandled>>

\* A read resolves without data, or with a status other than ok and stall.
InterruptReadNoData ==
    /\ pendingReads > 0
    /\ settledAfterStop' = (settledAfterStop \/ ~isListeningForEvents)
    /\ RestartListening(pendingReads - 1)
    /\ UNCHANGED <<outsideListen, eventsRead, delivered, atDispatch, subscribed,
                   malformed, unhandled, linkVars, eventHandlers, restartTimers, connPc,
                   stopPc, discPc, recPc, recIndex, notified>>

\* A read resolves with status 'stall': handleStallError(INTERRUPT) starts
\* (and throws at once without a class request handler).
InterruptReadStall ==
    /\ pendingReads > 0
    /\ settledAfterStop' = (settledAfterStop \/ ~isListeningForEvents)
    /\ recPc = "none"
    /\ pendingReads' = pendingReads - 1
    /\ recPc' = IF classRequestHandler THEN "status" ELSE "none"
    /\ recIndex' = 0
    /\ unhandled' = IF classRequestHandler THEN unhandled
                                           ELSE unhandled \cup {"stall recovery"}
    /\ UNCHANGED <<outsideListen, linkVars, isListeningForEvents, eventHandlers,
                   restartTimers, connPc, stopPc, discPc, notified, eventsRead,
                   delivered, atDispatch, subscribed, malformed>>

\* A read rejects with LIBUSB_TRANSFER_CANCELLED: the catch branch returns.
InterruptReadCancelled ==
    /\ pendingReads > 0
    /\ settledAfterStop' = (settledAfterStop \/ ~isListeningForEvents)
    /\ pendingReads' = pendingReads - 1
    /\ UNCHANGED <<outsideListen, eventsRead, delivered, atDispatch, subscribed,
                   malformed, unhandled, linkVars, isListeningForEvents, eventHandlers,
                   restartTimers, connPc, stopPc, discPc, recPc, recIndex, notified>>

\* A read rejects with any other error.
InterruptReadError ==
    /\ pendingReads > 0
    /\ settledAfterStop' = (settledAfterStop \/ ~isListeningForEvents)
    /\ pendingReads' = pendingReads - 1
    /\ ScheduleRestart
    /\ UNCHANGED <<outsideListen, eventsRead, delivered, atDispatch, subscribed,
                   malformed, unhandled, linkVars, isListeningForEvents, eventHandlers,
                   connPc, stopPc, discPc, recPc, recIndex, notified>>

\* The 100 ms restart timer fires.
RestartTimerFires ==
    /\ restartTimers > 0
    /\ restartTimers' = restartTimers - 1
    /\ RestartListening(pendingReads)
    /\ UNCHANGED <<outsideListen, eventVars, linkVars, eventHandlers, connPc, stopPc, discPc,
                   recPc, recIndex, notified>>

\* handleStallError(INTERRUPT), Step 1 answered: Clear_Halt on the interrupt
\* endpoint if there is one, else the first poll.
ListenerStallStatusDone ==
    /\ recPc = "status"
    /\ recPc' = IF hasInterrupt THEN "clear" ELSE "poll"
    /\ UNCHANGED <<outsideListen, eventVars, linkVars, isListeningForEvents, eventHandlers,
                   pendingReads, restartTimers, connPc, stopPc, discPc, recIndex,
                   notified>>

\* clearHalt returned: first poll of Step 3.
ListenerClearHaltDone ==
    /\ recPc = "clear"
    /\ recPc' = "poll"
    /\ UNCHANGED <<outsideListen, eventVars, linkVars, isListeningForEvents, eventHandlers,
                   pendingReads, restartTimers, connPc, stopPc, discPc, recIndex,
                   notified>>

\* A poll answered: 0x2001 ends the recovery and runs the listener's then
\* callback (restart if the flag is set); anything else sleeps 50 ms.
ListenerStallPollDone(code) ==
    /\ recPc = "poll"
    /\ IF code = StatusOK
       THEN /\ recPc' = "none"
            /\ recIndex' = 0
            /\ RestartListening(pendingReads)
       ELSE /\ recPc' = "sleep"
            /\ UNCHANGED <<recIndex, isListeningForEvents, pendingReads>>
    /\ UNCHANGED <<outsideListen, eventVars, linkVars, eventHandlers, restartTimers, connPc,
                   stopPc, discPc, notified>>

\* The 50 ms sleep ends: the next poll goes to whatever classRequestHandler
\* is now (null throws), or the loop is over and handleStallError throws.
\* Nothing handles a rejected recovery.
ListenerStallSleepDone ==
    /\ recPc = "sleep"
    /\ IF recIndex + 1 < MaxStatusPolls /\ classRequestHandler
       THEN /\ recPc' = "poll"
            /\ recIndex' = recIndex + 1
            /\ UNCHANGED unhandled
       ELSE /\ recPc' = "none"
            /\ recIndex' = 0
            /\ unhandled' = unhandled \cup {"stall recovery"}
    /\ UNCHANGED <<outsideListen, settledAfterStop, linkVars, isListeningForEvents, eventHandlers,
                   pendingReads, restartTimers, connPc, stopPc, discPc, notified,
                   eventsRead, delivered, atDispatch, subscribed, malformed>>

\* A request of the recovery rejects.
ListenerRecoveryThrows ==
    /\ recPc \in {"status", "clear", "poll"}
    /\ recPc' = "none"
    /\ recIndex' = 0
    /\ unhandled' = unhandled \cup {"stall recovery"}
    /\ UNCHANGED <<outsideListen, settledAfterStop, linkVars, isListeningForEvents, eventHandlers,
                   pendingReads, restartTimers, connPc, stopPc, discPc, notified,
                   eventsRead, delivered, atDispatch, subscribed, malformed>>

NextListen ==
    \/ Connect
    \/ \E found \in BOOLEAN : ConnectFound(found)
    \/ \E outcome \in ConnectOutcomes, intr \in BOOLEAN : ConnectDeviceDone(outcome, intr)
    \/ StopEventListening
    \/ Disconnect
    \/ StopClearHaltDone
    \/ StopWaitDone
    \/ \E ok \in BOOLEAN : DisconnectCloseDone(ok)
    \/ \E handler \in Handlers : OnEvent(handler)
    \/ \E handler \in Handlers : OffEvent(handler)
    \/ \E wellFormed \in BOOLEAN, thrower \in 0..Len(eventHandlers) :
           InterruptReadData(wellFormed, thrower)
    \/ InterruptReadNoData
    \/ InterruptReadStall
    \/ InterruptReadCancelled
    \/ InterruptReadError
    \/ RestartTimerFires
    \/ ListenerStallStatusDone
    \/ ListenerClearHaltDone
    \/ \E code \in StatusCodes : ListenerStallPollDone(code)
    \/ ListenerStallSleepDone
    \/ ListenerRecoveryThrows

SpecListen == InitListen /\ [][NextListen]_vars

\* C10: at most one interrupt-IN read is outstanding or scheduled.
C10_OneInterruptReadAtATime == pendingReads + restartTimers <= 1

\* The events a handler was invoked with are in the order their reads
\* completed, none of them twice.
InOrderOnce(events) ==
    \A i, j \in DOMAIN events : i < j => events[i] < events[j]

\* C11: every event is delivered exactly once, in the order the reads
\* completed, to every handler registered when it is dispatched, also when
\* one of the handlers throws.
C11_EveryHandlerGetsEveryEvent ==
    /\ \A h \in Handlers : InOrderOnce(delivered[h])
    /\ eventsRead > 0 /\ eventsRead \notin malformed =>
           \A h \in atDispatch :
               /\ delivered[h] # <<>>
               /\ delivered[h][Len(delivered[h])] = eventsRead

\* C12: with isListeningForEvents false (as stopEventListening leaves it) no
\* step issues an interrupt read or sets the flag again, however the pending
\* read settles, except the step that completes a connect().
C12_NoReadAfterStop ==
    [][(~isListeningForEvents /\ (isListeningForEvents' \/ pendingReads' > pendingReads))
          => (~connected /\ connected')]_vars

\* stopEventListening() is past its clearHalt, the read that was pending has
\* settled after the flag was cleared, and no read is outstanding or
\* scheduled on the connected device.
C12_Witness ==
    /\ stopPc = "wait"
    /\ settledAfterStop
    /\ connected /\ hasInterrupt
    /\ ~isListeningForEvents
    /\ pendingReads = 0 /\ restartTimers = 0 /\ recPc = "none"

\* C13: a read whose bytes fail to parse invokes no handler, leaves no
\* rejection unhandled, and (the listener being on) schedules the restart
\* of the listener.
C13_MalformedEventDropped ==
    [][malformed' # malformed =>
          /\ delivered' = delivered
          /\ unhandled' = unhandled
          /\ isListeningForEvents =>
                 isListeningForEvents' /\ restartTimers' = restartTimers + 1]_vars

\* A handler received an event that was read after a malformed one.
C13_Witness ==
    \E m \in malformed, h \in Handlers :
        \E i \in DOMAIN delivered[h] : delivered[h][i] > m

\* C17: a step invokes a handler only if it was passed to onEvent and neither
\* offEvent nor a completed disconnect() has removed it since.
C17_OnlyRegisteredHandlersInvoked ==
    [][\A h \in Handlers : delivered'[h] # delivered[h] => h \in subscribed]_vars

\* h1 got the first event, was removed, and the second event went to h2 only.
C17_Witness ==
    /\ delivered["h1"] = <<1>>
    /\ delivered["h2"] = <<1, 2>>
    /\ "h1" \notin subscribed

\* C36: on a connected transport with isListeningForEvents true an interrupt
\* read is outstanding or its restart is on the way (the 100 ms timer is set
\* or STALL recovery is still running): the pump never stops with the flag
\* left true.
C36_PumpAliveWhileFlagSet ==
    (connected /\ isListeningForEvents) =>
        (pendingReads > 0 \/ restartTimers > 0 \/ recPc # "none")

\* C35: a connect() call on a connected transport (rejected with 'Already
\* connected') leaves the transport state unchanged: the listener flag, the
\* outstanding read and its restart timers, the link and the handlers.
C35_RejectedConnectChangesNothing ==
    [][(Connect /\ connected) =>
          UNCHANGED <<isListeningForEvents, pendingReads, restartTimers, linkVars,
                      eventHandlers>>]_vars

(***************************************************************************)
(* Decoding of one EVENT container                                         *)
(*                                                                         *)
(* The device encodes an event; handleInterruptData decodes the bytes of   *)
(* the interrupt read and invokes the registered handler.  Words are kept  *)
(* below 2^31, the range of the model checker's integers.                  *)
(***************************************************************************)

\* container_type of an EVENT container, and of a RESPONSE container.
EventType == 4

ResponseType == 3

\* event.parameters.length < 5
MaxParameters == 5

\* Most 32-bit words a transmitted payload holds.
MaxWords == 6

\* Most bytes a device appends after the container.
MaxEventPadding == 1

\* Event codes (ObjectAdded, ObjectRemoved) and transaction IDs on the wire.
EventCodes == {16387, 16388}

EventTxnIds == {5, 65541}

\* First words of the transmitted payloads; word i of a payload is i times
\* its first word.
WordBases == {1, 258, 16909060}

Uint16LE(n) == <<ByteOf(n, 0), ByteOf(n, 1)>>

Uint32LE(n) == <<ByteOf(n, 0), ByteOf(n, 1), ByteOf(n, 2), ByteOf(n, 3)>>

RECURSIVE WordsLE(_)
WordsLE(words) ==
    IF words = <<>> THEN <<>> ELSE Uint32LE(Head(words)) \o WordsLE(Tail(words))

\* The bytes a device puts on the interrupt endpoint for an event: the
\* 12-byte header, the payload (whole words, then `spare` more bytes), and
\* `padding` bytes after the container.
EncodeEvent(e) ==
    Uint32LE(HeaderSize + 4 * Len(e.words) + e.spare)
        \o Uint16LE(e.type) \o Uint16LE(e.code) \o Uint32LE(e.transactionId)
        \o WordsLE(e.words)
        \o [i \in 1..e.spare |-> 238]
        \o [i \in 1..e.padding |-> 255]

SentEvents ==
    [type : {EventType, ResponseType},
     code : EventCodes,
     transactionId : EventTxnIds,
     words : {[i \in 1..n |-> b * i] : n \in 0..MaxWords, b \in WordBases},
     spare : 0..3,
     padding : 0..MaxEventPadding]

\* view.getUint16(offset, true), view.getUint32(offset, true)
GetUint16(data, offset) == data[offset + 1] + 256 * data[offset + 2]

GetUint32(data, offset) ==
    data[offset + 1] + 256 * data[offset + 2] + 65536 * data[offset + 3]
        + 16777216 * data[offset + 4]

\* USBContainerBuilder.parseEvent(data) returns instead of throwing.
ParseEventAccepts(data) ==
    /\ Len(data) >= HeaderSize
    /\ GetUint32(data, 0) >= HeaderSize
    /\ Len(data) >= GetUint32(data, 0)
    /\ GetUint16(data, 4) = EventType

\* What it returns: code, transaction ID, and as payload the bytes between
\* the header and the container's length.
ParseEvent(data) ==
    [code |-> GetUint16(data, 6),
     transactionId |-> GetUint32(data, 8),
     payload |-> SubSeq(data, HeaderSize + 1, GetUint32(data, 0))]

\* The loop without its bound on the number of parameters.
RECURSIVE EventParametersUncapped(_, _, _)
EventParametersUncapped(payload, offset, parameters) ==
    IF offset + 4 <= Len(payload)
    THEN EventParametersUncapped(payload, offset + 4,
                                 Append(parameters, GetUint32(payload, offset)))
    ELSE parameters

\* while (offset + 4 <= payload.length && event.parameters.length < 5) {
\*     event.parameters.push(view.getUint32(offset, true)); offset += 4 }
RECURSIVE EventParameters(_, _, _)
EventParameters(payload, offset, parameters) ==
    IF offset + 4 <= Len(payload) /\ Len(parameters) < MaxParameters
    THEN EventParameters(payload, offset + 4,
                         Append(parameters, GetUint32(payload, offset)))
    ELSE parameters

\* The PTPEvent handleInterruptData builds from the parsed container.
EventOf(container) ==
    [code |-> container.code,
     transactionId |-> container.transactionId,
     parameters |-> EventParameters(container.payload, 0, <<>>)]

InitDecode ==
    /\ QuietTxn
    /\ QuietBulk
    /\ QuietRecv
    /\ QuietListen
    /\ QuietCanon
    /\ QuietSend
    /\ QuietPause
    /\ QuietSdio
    /\ QuietWait
    /\ QuietCache
    /\ QuietLogger
    /\ QuietCodec
    /\ QuietRegistry
    /\ QuietNikon
    /\ QuietPoll
    /\ evSent \in SentEvents
    /\ evData = EncodeEvent(evSent)
    /\ evPc = "read"
    /\ evCalls = <<>>

\* handleInterruptData(data) with one handler registered: parseEvent throws,
\* or the handler is invoked with the event.
DecodeInterruptData ==
    /\ evPc = "read"
    /\ IF ParseEventAccepts(evData)
       THEN /\ evCalls' = Append(evCalls, EventOf(ParseEvent(evData)))
            /\ evPc' = "dispatched"
       ELSE /\ evPc' = "rejected"
            /\ UNCHANGED evCalls
    /\ UNCHANGED <<outsideDecode, evSent, evData>>

NextDecode == DecodeInterruptData

SpecDecode == InitDecode /\ [][NextDecode]_vars

\* The bytes of the ObjectAdded example:
\* 14 00 00 00 04 00 03 40 05 00 00 00 01 00 00 00 02 00 00 00
ObjectAddedBytes ==
    <<20, 0, 0, 0, 4, 0, 3, 64, 5, 0, 0, 0, 1, 0, 0, 0, 2, 0, 0, 0>>

\* Bytes of the payload the device transmitted.
PayloadBytes == 4 * Len(evSent.words) + evSent.spare

\* C14: the handler is invoked once, with the code and transaction ID of the
\* header and the first min(5, floor(payload bytes / 4)) words of the
\* payload; for the ObjectAdded example, with transaction ID 5 and
\* parameters [1, 2].
C14_EventCarriesHeaderAndParameters ==
    evPc = "dispatched" =>
        /\ Len(evCalls) = 1
        /\ evCalls[1].code = evSent.code
        /\ evCalls[1].transactionId = evSent.transactionId
        /\ evCalls[1].parameters =
               SubSeq(evSent.words, 1, Min(MaxParameters, PayloadBytes \div 4))
        /\ evData = ObjectAddedBytes =>
               evCalls = <<[code |-> 16387, transactionId |-> 5,
                            parameters |-> <<1, 2>>]>>

\* The ObjectAdded example has been dispatched.
C14_Witness ==
    /\ evPc = "dispatched"
    /\ evData = ObjectAddedBytes

(***************************************************************************)
(* Lifecycle of the polling USBTransport                                   *)
(*                                                                         *)
(* connect(), disconnect(), onEvent / offEvent, the polling loop of the    *)
(* interrupt endpoint and the transaction-ID counter.  What a completed    *)
(* read dispatches is left out here.  Callers do not overlap two connect() *)
(* calls or two disconnect() calls.                                        *)
(***************************************************************************)

\* pollInterruptEndpoint() up to its await: one transferIn on the interrupt
\* endpoint unless the guard returns.
PollInterruptEndpoint(listening, intr, pending) ==
    IF listening /\ intr
    THEN /\ pending + pollTimers < MaxOutstanding
         /\ pollReads' = pending + 1
    ELSE pollReads' = pending

\* startEventListening(), called while this.connected is conn and
\* endpoints?.interrupt is intr.
StartEventListening(conn, intr, listening) ==
    IF listening \/ ~conn \/ ~intr
    THEN UNCHANGED <<interruptListening, pollReads>>
    ELSE /\ interruptListening' = TRUE
         /\ PollInterruptEndpoint(TRUE, intr, pollReads)

\* stopEventListening(): the flag, then clearTimeout of the handle kept in
\* interruptInterval (without effect when that timer has fired).
PollStopEventListening ==
    /\ interruptListening' = FALSE
    /\ interruptInterval' = "null"
    /\ pollTimers' = IF interruptInterval = "pending" THEN pollTimers - 1 ELSE pollTimers

InitPoll ==
    /\ QuietTxn
    /\ QuietBulk
    /\ QuietRecv
    /\ QuietListen
    /\ QuietCanon
    /\ QuietSend
    /\ QuietPause
    /\ QuietSdio
    /\ QuietWait
    /\ QuietCache
    /\ QuietLogger
    /\ QuietCodec
    /\ QuietRegistry
    /\ QuietNikon
    /\ QuietDecode
    /\ QuietPoll

\* connect() of a transport that is not connected, up to its first await.
PollConnect ==
    /\ pollConnPc = "idle"
    /\ ~pollConnected
    /\ pollConnPc' = "finding"
    /\ UNCHANGED <<outsidePoll, txnVars, pollConnected, pollInterrupt,
                   interruptListening, interruptInterval, pollReads, pollTimers,
                   pollHandlers, pollDiscPc, firstId>>

\* The device finder answers: no device throws 'Device not found'.
PollConnectFound(found) ==
    /\ pollConnPc = "finding"
    /\ pollConnPc' = IF found THEN "opening" ELSE "idle"
    /\ UNCHANGED <<outsidePoll, txnVars, pollConnected, pollInterrupt,
                   interruptListening, interruptInterval, pollReads, pollTimers,
                   pollHandlers, pollDiscPc, firstId>>

\* connectDevice() ends.  On success it has called startEventListening()
\* for a device with an interrupt endpoint, and connect() then sets
\* connected = true.
PollConnectDeviceDone(outcome, intr) ==
    /\ pollConnPc = "opening"
    /\ pollConnPc' = "idle"
    /\ IF outcome = "open failed"
       THEN UNCHANGED <<pollConnected, pollInterrupt, interruptListening, pollReads,
                        firstId>>
       ELSE IF outcome = "no interface"
       THEN /\ pollInterrupt' = intr
            /\ UNCHANGED <<pollConnected, interruptListening, pollReads, firstId>>
       ELSE /\ pollInterrupt' = intr
            /\ StartEventListening(pollConnected, intr, interruptListening)
            /\ pollConnected' = TRUE
            /\ firstId' = 0
    /\ UNCHANGED <<outsidePoll, txnVars, interruptInterval, pollTimers, pollHandlers,
                   pollDiscPc>>

\* disconnect() of a connected transport up to its first await:
\* stopEventListening().
PollDisconnect ==
    /\ pollDiscPc = "idle"
    /\ pollConnected
    /\ PollStopEventListening
    /\ pollDiscPc' = "closing"
    /\ UNCHANGED <<outsidePoll, txnVars, pollConnected, pollInterrupt, pollReads,
                   pollHandlers, pollConnPc, firstId>>

\* releaseInterface and close have settled (their errors are ignored); the
\* reads pending on the device end with it.  Then endpoints = null,
\* connected = false, eventHandlers.clear().
PollDisconnectDone ==
    /\ pollDiscPc = "closing"
    /\ pollDiscPc' = "idle"
    /\ pollConnected' = FALSE
    /\ pollInterrupt' = FALSE
    /\ pollHandlers' = {}
    /\ pollReads' = 0
    /\ UNCHANGED <<outsidePoll, txnVars, interruptListening, interruptInterval,
                   pollTimers, pollConnPc, firstId>>

\* onEvent(handler): the first handler on a connected transport starts the
\* polling loop.
PollOnEvent(handler) ==
    /\ handler \notin pollHandlers
    /\ pollHandlers' = pollHandlers \cup {handler}
    /\ IF pollHandlers = {} /\ pollConnected
       THEN StartEventListening(pollConnected, pollInterrupt, interruptListening)
       ELSE UNCHANGED <<interruptListening, pollReads>>
    /\ UNCHANGED <<outsidePoll, txnVars, pollConnected, pollInterrupt,
                   interruptInterval, pollTimers, pollConnPc, pollDiscPc, firstId>>

\* offEvent(handler): removing the last handler stops the loop.
PollOffEvent(handler) ==
    /\ handler \in pollHandlers
    /\ pollHandlers' = pollHandlers \ {handler}
    /\ IF pollHandlers = {handler}
       THEN PollStopEventListening
       ELSE UNCHANGED <<interruptListening, interruptInterval, pollTimers>>
    /\ UNCHANGED <<outsidePoll, txnVars, pollConnected, pollInterrupt, pollReads,
                   pollConnPc, pollDiscPc, firstId>>

\* The awaited transferIn settles, with whatever result (errors are
\* ignored): while listening, the next poll is set 100 ms ahead.
PollReadDone ==
    /\ pollReads > 0
    /\ pollReads' = pollReads - 1
    /\ IF interruptListening
       THEN /\ pollTimers' = pollTimers + 1
            /\ interruptInterval' = "pending"
       ELSE UNCHANGED <<pollTimers, interruptInterval>>
    /\ UNCHANGED <<outsidePoll, txnVars, pollConnected, pollInterrupt,
                   interruptListening, pollHandlers, pollConnPc, pollDiscPc, firstId>>

\* A timer fires, the one interruptInterval refers to or an older one:
\* pollInterruptEndpoint().
PollTimerFires(latest) ==
    /\ pollTimers > 0
    /\ IF latest
       THEN /\ interruptInterval = "pending"
            /\ interruptInterval' = "stale"
       ELSE /\ pollTimers > (IF interruptInterval = "pending" THEN 1 ELSE 0)
            /\ UNCHANGED interruptInterval
    /\ pollTimers' = pollTimers - 1
    /\ PollInterruptEndpoint(interruptListening, pollInterrupt, pollReads)
    /\ UNCHANGED <<outsidePoll, txnVars, pollConnected, pollInterrupt,
                   interruptListening, pollHandlers, pollConnPc, pollDiscPc, firstId>>

\* getNextTransactionId() on a connected transport.
PollGetNextTransactionId ==
    /\ pollConnected
    /\ issued < CallCap
    /\ transactionId' = NextTransactionId(transactionId)
    /\ prevId' = transactionId
    /\ issued' = Sat(issued)
    /\ firstId' = IF firstId = 0 THEN transactionId' ELSE firstId
    /\ UNCHANGED <<outsidePoll, pollConnected, pollInterrupt, interruptListening,
                   interruptInterval, pollReads, pollTimers, pollHandlers,
                   pollConnPc, pollDiscPc>>

NextPoll ==
    \/ PollConnect
    \/ \E found \in BOOLEAN : PollConnectFound(found)
    \/ \E outcome \in ConnectOutcomes, intr \in BOOLEAN :
           PollConnectDeviceDone(outcome, intr)
    \/ PollDisconnect
    \/ PollDisconnectDone
    \/ \E handler \in Handlers : PollOnEvent(handler)
    \/ \E handler \in Handlers : PollOffEvent(handler)
    \/ PollReadDone
    \/ \E latest \in BOOLEAN : PollTimerFires(latest)
    \/ PollGetNextTransactionId

SpecPoll == InitPoll /\ [][NextPoll]_vars

\* C15: the step in which connect() resolves on a device with an interrupt
\* endpoint leaves an interrupt read outstanding or scheduled.
C15_ConnectStartsEventPump ==
    [][(~pollConnected /\ pollConnected' /\ pollInterrupt')
          => (pollReads' > 0 \/ pollTimers' > 0)]_vars

\* C18: the first transaction ID handed out on any connection is 1.
C18_FirstIdIsOneOnEveryConnect == firstId \in {0, 1}

(***************************************************************************)
(* NikonCamera get / set                                                   *)
(*                                                                         *)
(* get and set test the property's access string with String.includes and  *)
(* then hand one operation to this.send.                                   *)
(***************************************************************************)
MaxNikonOps == 3

\* Access strings of the property definitions, as character sequences.
AccessGet == <<"G", "e", "t">>

AccessSet == <<"S", "e", "t">>

AccessGetSet == AccessGet \o AccessSet

\* Property definitions a caller can pass: name and access.
NikonProperties ==
    { [name |-> "CanonAperture", access |-> AccessGetSet],
      [name |-> "CanonModelId", access |-> AccessGet] }

NikonValues == {100, 400}

\* Variation: every string contains every other.
IncludesAnything(str, sub) == TRUE

\* String.prototype.includes
Includes(str, sub) ==
    \E i \in 0..(Len(str) - Len(sub)) : SubSeq(str, i + 1, i + Len(sub)) = sub

InitNikon ==
    /\ QuietTxn
    /\ QuietBulk
    /\ QuietRecv
    /\ QuietListen
    /\ QuietCanon
    /\ QuietSend
    /\ QuietPause
    /\ QuietSdio
    /\ QuietWait
    /\ QuietCache
    /\ QuietLogger
    /\ QuietCodec
    /\ QuietRegistry
    /\ QuietPoll
    /\ QuietDecode
    /\ QuietNikon

\* set(property, value): throws unless access includes 'Set', else sends
\* SetDevicePropValueEx with the encoded value.
NikonSet(property, value) ==
    /\ nkPc = "idle"
    /\ Len(nkSent) < MaxNikonOps
    /\ nkCall' = [kind |-> "set", property |-> property.name]
    /\ IF ~Includes(property.access, AccessSet)
       THEN /\ nkOutcome' = "is not writable"
            /\ UNCHANGED <<nkPc, nkSent>>
       ELSE /\ nkOutcome' = "-"
            /\ nkPc' = "set"
            /\ nkSent' = Append(nkSent, [op |-> "SetDevicePropValueEx",
                                         property |-> property.name, data |-> value])
    /\ UNCHANGED outsideNikon

\* The send of set() settles: set() resolves or rejects with it.
NikonSetSendDone(ok) ==
    /\ nkPc = "set"
    /\ nkPc' = "idle"
    /\ nkOutcome' = IF ok THEN "resolved" ELSE "send rejected"
    /\ UNCHANGED <<outsideNikon, nkCall, nkSent>>

\* get(property): throws unless access includes 'Get', else sends
\* GetDevicePropDescEx.
NikonGet(property) ==
    /\ nkPc = "idle"
    /\ Len(nkSent) < MaxNikonOps
    /\ nkCall' = [kind |-> "get", property |-> property.name]
    /\ IF ~Includes(property.access, AccessGet)
       THEN /\ nkOutcome' = "is not readable"
            /\ UNCHANGED <<nkPc, nkSent>>
       ELSE /\ nkOutcome' = "-"
            /\ nkPc' = "get"
            /\ nkSent' = Append(nkSent, [op |-> "GetDevicePropDescEx",
                                         property |-> property.name, data |-> 0])
    /\ UNCHANGED outsideNikon

\* The send of get() settles: rejected, without data, with something that
\* is no descriptor, or with a descriptor whose current value is returned.
GetOutcomes == {"send rejected", "No data received", "Invalid property descriptor", "value"}

NikonGetSendDone(outcome) ==
    /\ nkPc = "get"
    /\ nkPc' = "idle"
    /\ nkOutcome' = outcome
    /\ UNCHANGED <<outsideNikon, nkCall, nkSent>>

NextNikon ==
    \/ \E property \in NikonProperties, value \in NikonValues : NikonSet(property, value)
    \/ \E ok \in BOOLEAN : NikonSetSendDone(ok)
    \/ \E property \in NikonProperties : NikonGet(property)
    \/ \E outcome \in GetOutcomes : NikonGetSendDone(outcome)

SpecNikon == InitNikon /\ [][NextNikon]_vars

\* Names of the properties whose access is exactly 'Get'.
ReadOnlyNames == {p.name : p \in {q \in NikonProperties : q.access = AccessGet}}

\* C23: a set() on a property whose access is 'Get' fails with the
\* not-writable error, and no operation for it is handed to the device.
C23_ReadOnlySetSendsNothing ==
    /\ nkCall.kind = "set" /\ nkCall.property \in ReadOnlyNames =>
           nkOutcome = "is not writable" /\ nkPc = "idle"
    /\ \A k \in DOMAIN nkSent :
           nkSent[k].op = "SetDevicePropValueEx" => nkSent[k].property \notin ReadOnlyNames

\* A set() of a read-only property has failed after an earlier operation.
C23_Witness ==
    /\ nkCall = [kind |-> "set", property |-> "CanonModelId"]
    /\ nkOutcome = "is not writable"
    /\ Len(nkSent) = 1

(***************************************************************************)
(* Generic and vendor registries                                           *)
(*                                                                         *)
(* A vendor registry is the object literal { ...generic, vendor entries }. *)
(* An object is modelled as the sequence of its entries in property order: *)
(* defining an existing key replaces the value and keeps the position.     *)
(***************************************************************************)
MaxDefs == 2

RegistryNames == {"ISO", "SHUTTER_SPEED", "PROPERTY_CHANGED"}

\* 0x500D and 0xD20D
RegistryCodes == {20493, 53773}

\* The result of a lookup that finds nothing.
Undefined == [name |-> "undefined", code |-> 0, origin |-> "none"]

Definition(name, code, origin) == [name |-> name, code |-> code, origin |-> origin]

Keys(obj) == {obj[k].name : k \in DOMAIN obj}

\* Variation: a key that is already defined keeps its first value.
DefinePropertyKeepsFirst(obj, def) ==
    IF def.name \in Keys(obj) THEN obj ELSE Append(obj, def)

\* One property of an object literal or of a spread is defined on obj.
DefineProperty(obj, def) ==
    IF def.name \in Keys(obj)
    THEN [k \in DOMAIN obj |-> IF obj[k].name = def.name THEN def ELSE obj[k]]
    ELSE Append(obj, def)

RECURSIVE DefineAll(_, _)
\* The properties of defs are defined on obj in order.
DefineAll(obj, defs) ==
    IF defs = <<>> THEN obj
    ELSE DefineAll(DefineProperty(obj, Head(defs)), Tail(defs))

\* { ...generic, vendor entries }
VendorRegistry(generic, vendor) == DefineAll(DefineAll(<<>>, generic), vendor)

\* registry[name]
ByName(obj, name) ==
    IF name \in Keys(obj) THEN obj[CHOOSE k \in DOMAIN obj : obj[k].name = name]
    ELSE Undefined

\* Object.values(registry).find(e => e.code === code)
FindByCode(obj, code) ==
    IF \E k \in DOMAIN obj : obj[k].code = code
    THEN obj[CHOOSE k \in DOMAIN obj :
                 /\ obj[k].code = code
                 /\ \A j \in DOMAIN obj : obj[j].code = code => k <= j]
    ELSE Undefined

InitRegistry ==
    /\ QuietTxn
    /\ QuietBulk
    /\ QuietRecv
    /\ QuietListen
    /\ QuietCanon
    /\ QuietSend
    /\ QuietPause
    /\ QuietSdio
    /\ QuietWait
    /\ QuietCache
    /\ QuietLogger
    /\ QuietCodec
    /\ QuietPoll
    /\ QuietDecode
    /\ QuietNikon
    /\ QuietRegistry

\* One more entry of the generic literal (keys of a literal are distinct).
DefineGeneric(name, code) ==
    /\ regPc = "defining"
    /\ regVendor = <<>>
    /\ Len(regGeneric) < MaxDefs
    /\ name \notin Keys(regGeneric)
    /\ regGeneric' = Append(regGeneric, Definition(name, code, "generic"))
    /\ UNCHANGED <<outsideRegistry, regVendor, regMerged, regPc, regQuery, regFound>>

\* One more entry the vendor literal writes after the spread.
DefineVendor(name, code) ==
    /\ regPc = "defining"
    /\ Len(regVendor) < MaxDefs
    /\ name \notin Keys(regVendor)
    /\ regVendor' = Append(regVendor, Definition(name, code, "vendor"))
    /\ UNCHANGED <<outsideRegistry, regGeneric, regMerged, regPc, regQuery, regFound>>

\* The vendor module is evaluated: the vendor registry object exists.
EvaluateVendorRegistry ==
    /\ regPc = "defining"
    /\ regMerged' = VendorRegistry(regGeneric, regVendor)
    /\ regPc' = "merged"
    /\ UNCHANGED <<outsideRegistry, regGeneric, regVendor, regQuery, regFound>>

\* registry.properties.NAME
LookupByName(name) ==
    /\ regPc = "merged"
    /\ regQuery' = [by |-> "name", name |-> name, code |-> 0]
    /\ regFound' = ByName(regMerged, name)
    /\ UNCHANGED <<outsideRegistry, regGeneric, regVendor, regMerged, regPc>>

\* handleEvent: the definition for a received code.
LookupByCode(code) ==
    /\ regPc = "merged"
    /\ regQuery' = [by |-> "code", name |-> "-", code |-> code]
    /\ regFound' = FindByCode(regMerged, code)
    /\ UNCHANGED <<outsideRegistry, regGeneric, regVendor, regMerged, regPc>>

NextRegistry ==
    \/ \E name \in RegistryNames, code \in RegistryCodes : DefineGeneric(name, code)
    \/ \E name \in RegistryNames, code \in RegistryCodes : DefineVendor(name, code)
    \/ EvaluateVendorRegistry
    \/ \E name \in RegistryNames : LookupByName(name)
    \/ \E code \in RegistryCodes : LookupByCode(code)

SpecRegistry == InitRegistry /\ [][NextRegistry]_vars

\* C24: every name of the generic registry is a name of the vendor
\* registry, and a lookup by a name the vendor defines returns the vendor's
\* definition, also when the generic registry defines that name.
C24_VendorShadowsGenericByName ==
    /\ regPc = "merged" => Keys(regGeneric) \subseteq Keys(regMerged)
    /\ regQuery.by = "name" =>
          /\ regQuery.name \in Keys(regGeneric) => regFound # Undefined
          /\ \A k \in DOMAIN regVendor :
                 regVendor[k].name = regQuery.name => regFound = regVendor[k]

\* A name defined in both registries has been looked up.
C24_Witness ==
    /\ regQuery.by = "name"
    /\ regQuery.name \in Keys(regGeneric) \cap Keys(regVendor)
    /\ regFound.origin = "vendor"
    /\ Len(regMerged) = 3

\* C25: when a generic and a vendor definition share a code, the lookup by
\* that code over the vendor registry returns the vendor's definition.
C25_VendorWinsByCode ==
    (/\ regQuery.by = "code"
     /\ \E g \in DOMAIN regGeneric, v \in DOMAIN regVendor :
            regGeneric[g].code = regQuery.code /\ regVendor[v].code = regQuery.code)
       => (regFound # Undefined /\ regFound.origin = "vendor")

(***************************************************************************)
(* Value codecs                                                            *)
(*                                                                         *)
(* A JavaScript value is a record: a number, a string (its code points), a *)
(* byte array, or null.  Numbers stay below 2^31 in absolute value; the    *)
(* one larger number the sources use, 0xFFFFFFFF, is written as two 16-bit *)
(* words.                                                                  *)
(***************************************************************************)
UINT8 == 1

INT8 == 2

UINT16 == 3

INT16 == 4

UINT32 == 5

INT32 == 6

UINT64 == 7

INT64 == 8

STRING_TYPE == 65535

Num(n) == [kind |-> "number", n |-> n, s |-> <<>>]

Str(s) == [kind |-> "string", n |-> 0, s |-> s]

ByteArray(b) == [kind |-> "bytes", n |-> 0, s |-> b]

Null == [kind |-> "null", n |-> 0, s |-> <<>>]

\* Length of the longest string tried.
LongString == 256

\* "", "A", "e-acute A", and LongString times "a".
StringValues == { <<>>, <<65>>, <<233, 65>>, [i \in 1..LongString |-> 97] }

\* The values tried for each datatype: its domain, or the ends and some
\* inner points of it.
DomainOf(dataType) ==
    CASE dataType = UINT8 -> {Num(n) : n \in 0..255}
      [] dataType = INT8 -> {Num(n) : n \in -128..127}
      [] dataType = UINT16 -> {Num(n) : n \in {0, 1, 255, 256, 400, 65535}}
      [] dataType = INT16 -> {Num(n) : n \in {-32768, -257, -1, 0, 400, 32767}}
      [] dataType = UINT32 -> {Num(n) : n \in {0, 400, 65536, 16777216, 2147483647}}
      [] dataType = INT32 -> {Num(n) : n \in {-2147483647, -65537, -1, 0, 400, 2147483647}}
      [] dataType = UINT64 -> {Num(n) : n \in {0, 400}}
      [] dataType = INT64 -> {Num(n) : n \in {-1, 400}}
      [] dataType = STRING_TYPE -> {Str(s) : s \in StringValues}

PrimitiveTypes == {UINT8, INT8, UINT16, INT16, UINT32, INT32, UINT64, INT64, STRING_TYPE}

\* DataView.setUint / setInt (little-endian): the low width bytes of the
\* two's complement of n.
LEBytes(n, width) == [k \in 1..width |-> (n \div (256 ^ (k - 1))) % 256]

\* TextEncoder.encode for code points below 0x800: one byte, or a lead
\* byte and a continuation byte (slot -1: no second byte).
Utf8Encode(s) ==
    SelectSeq([j \in 1..(2 * Len(s)) |->
                  IF j % 2 = 1
                  THEN (IF s[(j + 1) \div 2] < 128 THEN s[(j + 1) \div 2]
                        ELSE 192 + (s[(j + 1) \div 2] \div 64))
                  ELSE (IF s[j \div 2] < 128 THEN -1 ELSE 128 + (s[j \div 2] % 64))],
              LAMBDA x : x >= 0)

\* Byte i of b is the continuation byte of a two-byte sequence.
Continues(b, i) ==
    i > 1 /\ b[i - 1] >= 194 /\ b[i - 1] < 224 /\ b[i] >= 128 /\ b[i] < 192

\* TextDecoder.decode: one- and two-byte sequences, U+FFFD for anything
\* else (slot -1: byte consumed by the sequence before it).
Utf8Decode(b) ==
    SelectSeq([i \in 1..Len(b) |->
                  IF Continues(b, i) THEN -1
                  ELSE IF b[i] < 128 THEN b[i]
                  ELSE IF i < Len(b) /\ Continues(b, i + 1)
                  THEN (b[i] - 192) * 64 + (b[i + 1] - 128)
                  ELSE 65533],
              LAMBDA x : x >= 0)

\* case DataType.STRING of encodePTPValue: result[0] = utf8.length (a
\* Uint8Array element keeps the low byte), result[1] = 0, then the bytes.
EncodeString(s) == <<Len(Utf8Encode(s)) % 256, 0>> \o Utf8Encode(s)

\* encodePTPValue(value, dataType)
EncodePTPValue(value, dataType) ==
    CASE dataType \in {UINT8, INT8} -> LEBytes(value.n, 1)
      [] dataType \in {UINT16, INT16} -> LEBytes(value.n, 2)
      [] dataType \in {UINT32, INT32} -> LEBytes(value.n, 4)
      [] dataType = STRING_TYPE -> EncodeString(value.s)
      [] OTHER -> <<>>

\* DataView.getUint8 / getUint16 / getUint32 (little-endian) at offset 0.
GetUint(data, width) ==
    IF width = 1 THEN data[1]
    ELSE IF width = 2 THEN data[1] + 256 * data[2]
    ELSE data[1] + 256 * data[2] + 65536 * data[3] + 16777216 * data[4]

\* DataView.getInt8 / getInt16 / getInt32 (little-endian) at offset 0.
GetInt(data, width) ==
    IF width = 1 THEN (IF data[1] >= 128 THEN data[1] - 256 ELSE data[1])
    ELSE IF width = 2
    THEN data[1] + 256 * (IF data[2] >= 128 THEN data[2] - 256 ELSE data[2])
    ELSE data[1] + 256 * data[2] + 65536 * data[3]
           + 16777216 * (IF data[4] >= 128 THEN data[4] - 256 ELSE data[4])

\* data.slice(start, end)
SliceFrom(data, start, end) ==
    SubSeq(data, start + 1, IF end < Len(data) THEN end ELSE Len(data))

\* decodePTPValue(data, dataType)
DecodePTPValue(data, dataType) ==
    IF data = <<>> THEN Null
    ELSE CASE dataType = UINT8 -> Num(GetUint(data, 1))
           [] dataType = INT8 -> Num(GetInt(data, 1))
           [] dataType = UINT16 -> Num(GetUint(data, 2))
           [] dataType = INT16 -> Num(GetInt(data, 2))
           [] dataType = UINT32 -> Num(GetUint(data, 4))
           [] dataType = INT32 -> Num(GetInt(data, 4))
           [] dataType = STRING_TYPE -> Str(Utf8Decode(SliceFrom(data, 2, 2 + GetUint(data, 2))))
           [] OTHER -> ByteArray(data)

\* The decimal digits of a code-point string are 48 + d.
IsDigit(c) == c >= 48 /\ c <= 57

RECURSIVE DigitsValue(_, _)
\* The number written by the leading decimal digits of s, after acc.
DigitsValue(s, acc) ==
    IF s = <<>> \/ ~IsDigit(Head(s)) THEN acc
    ELSE DigitsValue(Tail(s), 10 * acc + (Head(s) - 48))

\* Not-a-number.
NaN == -1

\* parseInt(s) and Number(s) for a string of decimal digits; NaN when it
\* does not start with a digit.
ParseInt(s) == IF s = <<>> \/ ~IsDigit(Head(s)) THEN NaN ELSE DigitsValue(s, 0)

RECURSIVE NumberToString(_)
\* String(n) for an integer n >= 0.
NumberToString(n) ==
    IF n < 10 THEN <<48 + n>> ELSE NumberToString(n \div 10) \o <<48 + (n % 10)>>

RECURSIVE SkipDigits(_)
\* What follows the leading digits of s.
SkipDigits(s) == IF s = <<>> \/ ~IsDigit(Head(s)) THEN s ELSE SkipDigits(Tail(s))

\* Math.round(parseFloat(s) * 10) for s written as digits, optionally
\* followed by '.' (46) and one digit; NaN when s starts with no digit.
RoundedTenths(s) ==
    IF ParseInt(s) = NaN THEN NaN
    ELSE IF Len(SkipDigits(s)) >= 2 /\ SkipDigits(s)[1] = 46 /\ IsDigit(SkipDigits(s)[2])
    THEN 10 * ParseInt(s) + (SkipDigits(s)[2] - 48)
    ELSE 10 * ParseInt(s)

\* String(tenths / 10)
TenthsToString(tenths) ==
    IF tenths % 10 = 0 THEN NumberToString(tenths \div 10)
    ELSE NumberToString(tenths \div 10) \o <<46, 48 + (tenths % 10)>>

\* value.replace('"', ''): the first double quote (34) is removed.
RemoveQuote(s) ==
    IF \E i \in DOMAIN s : s[i] = 34
    THEN SubSeq(s, 1, (CHOOSE i \in DOMAIN s : s[i] = 34 /\ \A j \in 1..(i - 1) : s[j] # 34) - 1)
         \o SubSeq(s, (CHOOSE i \in DOMAIN s : s[i] = 34 /\ \A j \in 1..(i - 1) : s[j] # 34) + 1,
                   Len(s))
    ELSE s

\* 'BULB'
BULB == <<66, 85, 76, 66>>

\* 'N/A'
NotAvailable == <<78, 47, 65>>

\* '1/n'
Fraction(n) == <<49, 47>> \o NumberToString(n)

\* 'tenths/10"'
Seconds(tenths) == TenthsToString(tenths) \o <<34>>

\* A 32-bit number as its high and low 16-bit words.
Words(hi, lo) == [hi |-> hi, lo |-> lo]

\* view.setUint32(0, hi * 2^16 + lo, true)
SetUint32(w) == LEBytes(w.lo, 2) \o LEBytes(w.hi, 2)

\* view.getUint32(0, true), as words.
WordsOf(data) == Words(data[3] + 256 * data[4], data[1] + 256 * data[2])

\* numValue of SonyProperties.SHUTTER_SPEED.encode(value).
ShutterNumValue(value) ==
    IF value = BULB THEN Words(0, 0)
    ELSE IF value = NotAvailable THEN Words(65535, 65535)
    ELSE IF Len(value) >= 2 /\ SubSeq(value, 1, 2) = <<49, 47>>
    THEN Words(1, IF ParseInt(SubSeq(value, 3, Len(value))) = NaN THEN 0
                  ELSE ParseInt(SubSeq(value, 3, Len(value))) % 65536)
    ELSE IF RoundedTenths(RemoveQuote(value)) # NaN
    THEN Words(RoundedTenths(RemoveQuote(value)) % 65536, 10)
    ELSE Words(65535, 65535)

\* SonyProperties.SHUTTER_SPEED.encode
ShutterEncode(value) == SetUint32(ShutterNumValue(value))

\* const num = typeof value === 'number' ? value : 0
NumberOrZero(value) == IF value.kind = "number" THEN value.w ELSE Words(0, 0)

\* SonyProperties.SHUTTER_SPEED.decode, on num.
ShutterString(num) ==
    IF num = Words(0, 0) THEN BULB
    ELSE IF num = Words(65535, 65535) THEN NotAvailable
    ELSE IF num.lo = 10 THEN TenthsToString(num.hi) \o <<34>>
    ELSE IF num.hi = 1 THEN <<49, 47>> \o NumberToString(num.lo)
    ELSE NumberToString(num.hi) \o <<47>> \o NumberToString(num.lo)

\* SonyProperties.SHUTTER_SPEED.decode(value)
ShutterDecode(value) == ShutterString(NumberOrZero(value))

\* The value handed to decode: the bytes encode returned, or the number
\* decodePTPValue reads from them.
AsBytes(data) == [kind |-> "bytes", w |-> Words(0, 0), s |-> data]

AsNumber(data) == [kind |-> "number", w |-> WordsOf(data), s |-> <<>>]

\* Shutter speeds tried: denominators and tenths of a second.
Denominators == {1, 2, 10, 250, 4000, 65535}

Tenths == {4, 15, 300}

ShutterValues ==
    {BULB, NotAvailable} \cup {Fraction(n) : n \in Denominators}
        \cup {Seconds(t) : t \in Tenths}

\* ISO strings tried.
IsoValues == {NumberToString(n) : n \in {100, 400, 65535}}

\* PTPProperties.ISO: type (declared) and the datatype encode / decode use.
IsoDeclaredType == UINT16

IsoEncodedType == UINT32

\* PTPProperties.ISO.encode(value): setUint32 converts the string to a
\* number.
IsoEncode(value) == EncodePTPValue(Num(ParseInt(value)), IsoEncodedType)

\* PTPProperties.ISO.decode(value)
IsoDecode(data) == DecodePTPValue(data, IsoEncodedType)

InitCodec ==
    /\ QuietTxn
    /\ QuietBulk
    /\ QuietRecv
    /\ QuietListen
    /\ QuietCanon
    /\ QuietSend
    /\ QuietPause
    /\ QuietSdio
    /\ QuietWait
    /\ QuietCache
    /\ QuietLogger
    /\ QuietPoll
    /\ QuietDecode
    /\ QuietNikon
    /\ QuietRegistry
    /\ QuietCodec

\* encodePTPValue is applied to a value of the datatype's domain.
EncodeValue(dataType, value) ==
    /\ cdPc \in {"idle", "decoded"}
    /\ cdPc' = "encoded"
    /\ cdCodec' = "PTPValue"
    /\ cdType' = dataType
    /\ cdValue' = value
    /\ cdBytes' = EncodePTPValue(value, dataType)
    /\ cdDecoded' = Null
    /\ UNCHANGED outsideCodec

\* decodePTPValue is applied to the bytes just produced.
DecodeValue ==
    /\ cdPc = "encoded"
    /\ cdCodec = "PTPValue"
    /\ cdPc' = "decoded"
    /\ cdDecoded' = DecodePTPValue(cdBytes, cdType)
    /\ UNCHANGED <<outsideCodec, cdCodec, cdType, cdValue, cdBytes>>

\* PTPProperties.ISO.encode for a set of ISO.
EncodeIso(value) ==
    /\ cdPc \in {"idle", "decoded"}
    /\ cdPc' = "encoded"
    /\ cdCodec' = "PTP.ISO"
    /\ cdType' = IsoDeclaredType
    /\ cdValue' = Str(value)
    /\ cdBytes' = IsoEncode(value)
    /\ cdDecoded' = Null
    /\ UNCHANGED outsideCodec

\* PTPProperties.ISO.decode of those bytes.
DecodeIso ==
    /\ cdPc = "encoded"
    /\ cdCodec = "PTP.ISO"
    /\ cdPc' = "decoded"
    /\ cdDecoded' = IsoDecode(cdBytes)
    /\ UNCHANGED <<outsideCodec, cdCodec, cdType, cdValue, cdBytes>>

\* SonyProperties.SHUTTER_SPEED.encode
EncodeShutter(value) ==
    /\ cdPc \in {"idle", "decoded"}
    /\ cdPc' = "encoded"
    /\ cdCodec' = "Sony.SHUTTER_SPEED"
    /\ cdType' = UINT32
    /\ cdValue' = Str(value)
    /\ cdBytes' = ShutterEncode(value)
    /\ cdDecoded' = Null
    /\ UNCHANGED outsideCodec

\* SonyProperties.SHUTTER_SPEED.decode, given what encode returned
\* (asNumber: given the number read from it).
DecodeShutter(asNumber) ==
    /\ cdPc = "encoded"
    /\ cdCodec = "Sony.SHUTTER_SPEED"
    /\ cdPc' = "decoded"
    /\ cdCodec' = IF asNumber THEN "Sony.SHUTTER_SPEED number" ELSE "Sony.SHUTTER_SPEED bytes"
    /\ cdDecoded' = Str(ShutterDecode(IF asNumber THEN AsNumber(cdBytes) ELSE AsBytes(cdBytes)))
    /\ UNCHANGED <<outsideCodec, cdType, cdValue, cdBytes>>

NextCodec ==
    \/ \E dataType \in PrimitiveTypes : \E value \in DomainOf(dataType) :
           EncodeValue(dataType, value)
    \/ DecodeValue
    \/ \E value \in IsoValues : EncodeIso(value)
    \/ DecodeIso
    \/ \E value \in ShutterValues : EncodeShutter(value)
    \/ \E asNumber \in BOOLEAN : DecodeShutter(asNumber)

SpecCodec == InitCodec /\ [][NextCodec]_vars

\* C26: for every primitive datatype and every value of its domain,
\* decodePTPValue of the encodePTPValue of the value is that value.
C26_PrimitiveRoundTrip ==
    (cdPc = "decoded" /\ cdCodec = "PTPValue") =>
        (cdDecoded.kind = cdValue.kind /\ cdDecoded = cdValue)

\* Bytes a value of a datatype takes on the wire.
WidthOf(dataType) ==
    CASE dataType \in {UINT8, INT8} -> 1
      [] dataType \in {UINT16, INT16} -> 2
      [] dataType \in {UINT32, INT32} -> 4
      [] OTHER -> 8

\* C27: the bytes sent for a property are as wide as its declared datatype,
\* little-endian: ISO (declared UINT16) set to 400 is the payload 90 01, and
\* the DATA container, header and payload, is 14 bytes long.
C27_PayloadAsWideAsDeclared ==
    (cdCodec = "PTP.ISO" /\ cdPc = "encoded") =>
        /\ Len(cdBytes) = WidthOf(cdType)
        /\ cdValue = Str(NumberToString(400)) =>
              (cdBytes = <<144, 1>> /\ HeaderSize + Len(cdBytes) = 14)

\* C28: decoding what SHUTTER_SPEED.encode returned for a shutter-speed
\* string gives that string back.
C28_ShutterSpeedRoundTrip ==
    (cdPc = "decoded" /\ cdCodec = "Sony.SHUTTER_SPEED bytes") => cdDecoded = cdValue

\* The same with the number read from the encoded bytes handed to decode.
ShutterSpeedRoundTripOfNumber ==
    (cdPc = "decoded" /\ cdCodec = "Sony.SHUTTER_SPEED number") => cdDecoded = cdValue

(***************************************************************************)
(* Logger                                                                  *)
(*                                                                         *)
(* logs is a Map from a group key to the logs of the group; a Map is       *)
(* modelled as a function on its key set.  orderedTransactions lists the   *)
(* keys in creation order.                                                 *)
(***************************************************************************)
MaxLogIds == 5

\* config.maxLogs values (0: undefined, keep all).
LogLimits == {0, 1, 2}

LogSessions == {1}

LogTransactions == {1, 2, 3}

\* `console:${id}` and `${sessionId}:${transactionId}`
ConsoleKey(id) == [kind |-> "console", a |-> id, b |-> 0]

GetKey(sid, tid) == [kind |-> "txn", a |-> sid, b |-> tid]

\* The keys of a list of { key, timestamp } entries.
KeysOf(ordered) == {ordered[k] : k \in DOMAIN ordered}

\* Variation: nothing is ever chosen for deletion.
ToDeleteNothing(ordered, limit) == <<>>

\* toDelete of trimIfNeeded: the entries before the last limit ones.
ToDelete(ordered, limit) ==
    IF limit = 0 \/ Len(ordered) <= limit THEN <<>>
    ELSE SubSeq(ordered, 1, Len(ordered) - limit)

\* orderedTransactions.slice(-limit), when trimming applies.
Kept(ordered, limit) ==
    IF limit = 0 \/ Len(ordered) <= limit THEN ordered
    ELSE SubSeq(ordered, Len(ordered) - limit + 1, Len(ordered))

\* The Map after logs.delete(key) for every key to delete.
DeleteKeys(map, keys) == [k \in (DOMAIN map) \ keys |-> map[k]]

\* The Map after logs.set(key, value).
MapSet(map, key, value) ==
    [k \in (DOMAIN map) \cup {key} |-> IF k = key THEN value ELSE map[k]]

\* The tail of addLog: the group of key receives log id, a new group is
\* appended to orderedTransactions, then trimIfNeeded().
StoreAndTrim(key, id) ==
    /\ nextId' = id + 1
    /\ lgLast' = "addLog"
    /\ IF key \in DOMAIN logs
       THEN /\ logs' = DeleteKeys(MapSet(logs, key, Append(logs[key], id)),
                                  KeysOf(ToDelete(orderedTransactions, maxLogs)))
            /\ orderedTransactions' = Kept(orderedTransactions, maxLogs)
            /\ UNCHANGED lgCreated
       ELSE /\ logs' = DeleteKeys(MapSet(logs, key, <<id>>),
                                  KeysOf(ToDelete(Append(orderedTransactions, key), maxLogs)))
            /\ orderedTransactions' = Kept(Append(orderedTransactions, key), maxLogs)
            /\ lgCreated' = Append(lgCreated, key)
    /\ UNCHANGED <<outsideLogger, maxLogs, lgRaised>>

InitLogger ==
    /\ QuietTxn
    /\ QuietBulk
    /\ QuietRecv
    /\ QuietListen
    /\ QuietCanon
    /\ QuietSend
    /\ QuietPause
    /\ QuietSdio
    /\ QuietWait
    /\ QuietCache
    /\ QuietPoll
    /\ QuietDecode
    /\ QuietNikon
    /\ QuietRegistry
    /\ QuietCodec
    /\ QuietLogger

\* addLog of a console log: a group of its own under console:id.
AddConsoleLog ==
    /\ nextId <= MaxLogIds
    /\ StoreAndTrim(ConsoleKey(nextId), nextId)

\* addLog of an operation or USB transfer log of a transaction.
AddTransactionLog(sid, tid) ==
    /\ nextId <= MaxLogIds
    /\ StoreAndTrim(GetKey(sid, tid), nextId)

\* updateLog: a stored log is replaced in place.
UpdateLog ==
    /\ DOMAIN logs # {}
    /\ lgLast' = "updateLog"
    /\ UNCHANGED <<outsideLogger, logs, orderedTransactions, nextId, maxLogs, lgCreated,
                   lgRaised>>

\* setConfig({ maxLogs: limit })
SetConfig(limit) ==
    /\ maxLogs' = limit
    /\ lgLast' = "setConfig"
    /\ lgRaised' = (lgRaised \/ (maxLogs > 0 /\ (limit = 0 \/ limit > maxLogs)))
    /\ UNCHANGED <<outsideLogger, logs, orderedTransactions, nextId, lgCreated>>

\* clear()
Clear ==
    /\ logs' = <<>>
    /\ orderedTransactions' = <<>>
    /\ nextId' = 1
    /\ lgCreated' = <<>>
    /\ lgLast' = "clear"
    /\ lgRaised' = FALSE
    /\ UNCHANGED <<outsideLogger, maxLogs>>

NextLogger ==
    \/ AddConsoleLog
    \/ \E sid \in LogSessions, tid \in LogTransactions :
           AddTransactionLog(sid, tid)
    \/ UpdateLog
    \/ \E limit \in LogLimits : SetConfig(limit)
    \/ Clear

SpecLogger == InitLogger /\ [][NextLogger]_vars

\* The last n entries of a sequence (all of it when it is shorter).
LastOf(seq, n) == SubSeq(seq, IF Len(seq) > n THEN Len(seq) - n + 1 ELSE 1, Len(seq))

\* C29: with maxLogs = N > 0, after every addLog at most N groups are
\* stored, they are the most recently created groups (the N most recent
\* ones when the limit has not been raised in between), and the keys of
\* the log map are the keys of the ordered transaction list.
C29_TrimKeepsNewestGroups ==
    (lgLast = "addLog" /\ maxLogs > 0) =>
        /\ Len(orderedTransactions) <= maxLogs
        /\ orderedTransactions = LastOf(lgCreated, Len(orderedTransactions))
        /\ ~lgRaised => orderedTransactions = LastOf(lgCreated, maxLogs)
        /\ DOMAIN logs = KeysOf(orderedTransactions)
        /\ Cardinality(DOMAIN logs) = Len(orderedTransactions)

\* An addLog has evicted the two oldest groups at once.
C29_Witness ==
    /\ lgLast = "addLog"
    /\ maxLogs = 1
    /\ Len(lgCreated) = 3
    /\ Len(orderedTransactions) = 1
    /\ ~lgRaised
    /\ \E k \in DOMAIN logs : k.kind = "txn"

(***************************************************************************)
(* Cache-only CanonCamera (part_006)                                       *)
(*                                                                         *)
(* getCanonProperty reads propertyCache only; the cache is written by      *)
(* flushInitialEvents and by the interval callbacks.  A send is one step   *)
(* that submits the operation and one that settles it.  Callers connect    *)
(* again only when no interval callback still awaits its send, and read a  *)
(* property while no connect() is under way.                               *)
(***************************************************************************)

\* connect() calls in one run.
MaxSessions == 2

\* getCanonProperty calls in one run.
MaxGets == 1

\* Interval callbacks of the cache-only camera awaiting their send at once.
MaxCachePolls == 1

\* Events one CanonGetEventData response carries.
MaxCacheEvents == 2

\* event.code === 0xC189
CanonValueChanged == 49545

\* Another event code.
CanonOtherEvent == CanonValueChanged + 1

\* Events of a response: CanonValueChanged with property code and value,
\* CanonValueChanged with the property code alone, and another event.
CacheEvents ==
    {[code |-> CanonValueChanged, parameters |-> <<p, v>>] :
        p \in CanonProperties, v \in Values}
    \cup {[code |-> CanonValueChanged, parameters |-> <<"CanonAperture">>]}
    \cup {[code |-> CanonOtherEvent, parameters |-> <<"CanonAperture", 1>>]}

CacheBatches == UNION {[1..n -> CacheEvents] : n \in 0..MaxCacheEvents}

\* if (event.code === 0xC189 && event.parameters && event.parameters.length >= 2)
IsValueChange(event) ==
    event.code = CanonValueChanged /\ Len(event.parameters) >= 2

\* Variation: forEach visits the events last to first.
RECURSIVE CachedFromLast(_, _)
CachedFromLast(cache, events) ==
    IF events = <<>> THEN cache
    ELSE LET event == events[Len(events)]
             rest == SubSeq(events, 1, Len(events) - 1)
         IN  CachedFromLast(IF IsValueChange(event)
                            THEN [cache EXCEPT ![event.parameters[1]] = event.parameters[2]]
                            ELSE cache, rest)

\* response.data.forEach(event => ... this.propertyCache.set(propCode, value))
RECURSIVE Cached(_, _)
Cached(cache, events) ==
    IF events = <<>> THEN cache
    ELSE Cached(IF IsValueChange(Head(events))
                THEN [cache EXCEPT ![Head(events).parameters[1]] =
                                       Head(events).parameters[2]]
                ELSE cache, Tail(events))

\* The events of a batch that report a value of p.
ReportsOf(events, p) ==
    {i \in DOMAIN events : /\ events[i].code = CanonValueChanged
                           /\ Len(events[i].parameters) >= 2
                           /\ events[i].parameters[1] = p}

\* Value and session of the last event processed for each property.
Reported(events) ==
    [p \in CanonProperties |->
        IF ReportsOf(events, p) = {} THEN ccReported[p]
        ELSE [value |-> events[CHOOSE i \in ReportsOf(events, p) :
                                  \A j \in ReportsOf(events, p) : i >= j].parameters[2],
              session |-> ccSession]]

\* await this.send(...) in `method`.
CacheSend(method) == ccLastSender' = method

InitCanonCache ==
    /\ QuietTxn
    /\ QuietBulk
    /\ QuietRecv
    /\ QuietListen
    /\ QuietDecode
    /\ QuietPoll
    /\ QuietNikon
    /\ QuietRegistry
    /\ QuietCodec
    /\ QuietLogger
    /\ QuietCache
    /\ QuietCanon
    /\ QuietSend
    /\ QuietPause
    /\ QuietSdio
    /\ QuietWait

\* connect(): sessionId = 1, send OpenSession.
CacheConnect ==
    /\ ccPc \in {"new", "closed", "failed"}
    /\ ccPolls = 0
    /\ ~ccSetPending
    /\ ccSession < MaxSessions
    /\ ccSession' = ccSession + 1
    /\ ccPc' = "connecting"
    /\ ccStep' = "OpenSession"
    /\ CacheSend("connect")
    /\ UNCHANGED <<outsideCache, ccFlushIndex, ccEmptyCount, ccInterval, ccPolls,
                   ccSetPending, ccCache, ccReported, ccGets, ccGet>>

\* OpenSession, enableRemoteMode or enableEventMode settles; a failure
\* rejects connect(); after enableEventMode the flush loop starts.
CacheConnectSendDone(ok) ==
    /\ ccStep \in {"OpenSession", "CanonSetRemoteMode", "CanonSetEventMode"}
    /\ IF ~ok
       THEN /\ ccPc' = "failed"
            /\ ccStep' = "none"
            /\ UNCHANGED <<ccFlushIndex, ccEmptyCount, ccLastSender>>
       ELSE /\ ccStep' = IF ccStep = "OpenSession" THEN "CanonSetRemoteMode"
                         ELSE IF ccStep = "CanonSetRemoteMode" THEN "CanonSetEventMode"
                         ELSE "flush"
            /\ ccFlushIndex' = 0
            /\ ccEmptyCount' = 0
            /\ CacheSend("connect")
            /\ UNCHANGED ccPc
    /\ UNCHANGED <<outsideCache, ccInterval, ccPolls, ccSetPending, ccCache, ccSession,
                   ccReported, ccGets, ccGet>>

\* flushInitialEvents returns (its locals are gone) and connect() ends with
\* startEventPolling().
CacheFinishConnect ==
    /\ ccPc' = "ready"
    /\ ccStep' = "none"
    /\ ccFlushIndex' = 0
    /\ ccEmptyCount' = 0
    /\ ccInterval' = TRUE

\* A CanonGetEventData of flushInitialEvents settles: the events go to the
\* cache; the third empty answer in a row, or an error, ends the loop.
CacheFlushSendDone(ok, events) ==
    /\ ccStep = "flush"
    /\ ~ok => events = <<>>
    /\ ccCache' = Cached(ccCache, events)
    /\ ccReported' = Reported(events)
    /\ IF ~ok
       THEN CacheFinishConnect
       ELSE IF events # <<>>
       THEN /\ ccEmptyCount' = 0
            /\ ccStep' = "flushSleep"
            /\ UNCHANGED <<ccPc, ccInterval, ccFlushIndex>>
       ELSE IF ccEmptyCount + 1 >= MaxEmptyBeforeStop
       THEN CacheFinishConnect
       ELSE /\ ccEmptyCount' = ccEmptyCount + 1
            /\ ccStep' = "flushSleep"
            /\ UNCHANGED <<ccPc, ccInterval, ccFlushIndex>>
    /\ UNCHANGED <<outsideCache, ccPolls, ccSetPending, ccSession,
                   ccLastSender, ccGets, ccGet>>

\* The 50 ms delay between two flush polls ends: i++, next poll or loop end.
CacheFlushSleepDone ==
    /\ ccStep = "flushSleep"
    /\ IF ccFlushIndex + 1 < FlushMax
       THEN /\ ccFlushIndex' = ccFlushIndex + 1
            /\ ccStep' = "flush"
            /\ CacheSend("connect")
            /\ UNCHANGED <<ccPc, ccInterval, ccEmptyCount>>
       ELSE /\ CacheFinishConnect
            /\ UNCHANGED ccLastSender
    /\ UNCHANGED <<outsideCache, ccPolls, ccSetPending, ccCache, ccSession,
                   ccReported, ccGets, ccGet>>

\* The interval fires: the callback sends CanonGetEventData.
CacheTimerTick ==
    /\ ccInterval
    /\ ccPolls < MaxCachePolls
    /\ ccPolls' = ccPolls + 1
    /\ CacheSend("startEventPolling")
    /\ UNCHANGED <<outsideCache, ccPc, ccStep, ccFlushIndex, ccEmptyCount, ccInterval,
                   ccSetPending, ccCache, ccSession, ccReported, ccGets, ccGet>>

\* The send of an interval callback settles: every CanonValueChanged event
\* with two parameters is cached; an error is swallowed.
CachePollSendDone(ok, events) ==
    /\ ccPolls > 0
    /\ ~ok => events = <<>>
    /\ ccPolls' = ccPolls - 1
    /\ ccCache' = Cached(ccCache, events)
    /\ ccReported' = Reported(events)
    /\ UNCHANGED <<outsideCache, ccPc, ccStep, ccFlushIndex, ccEmptyCount, ccInterval,
                   ccSetPending, ccSession, ccLastSender, ccGets, ccGet>>

\* getCanonProperty(propertyCode): the cached value, or an error when the
\* cache has no entry for the property.
CacheGetCanonProperty(p) ==
    /\ ccPc # "connecting"
    /\ ccGets < MaxGets
    /\ ccGets' = ccGets + 1
    /\ ccGet' = IF ccCache[p] = NoValue
                THEN [prop |-> p, outcome |-> "throws", value |-> NoValue]
                ELSE [prop |-> p, outcome |-> "value", value |-> ccCache[p]]
    /\ UNCHANGED <<outsideCache, ccPc, ccStep, ccFlushIndex, ccEmptyCount, ccInterval,
                   ccPolls, ccSetPending, ccCache, ccSession, ccReported, ccLastSender>>

\* setCanonProperty(propertyCode, value): send CanonSetPropValue.
CacheSetCanonProperty ==
    /\ ccPc = "ready"
    /\ ~ccSetPending
    /\ ccSetPending' = TRUE
    /\ CacheSend("setCanonProperty")
    /\ UNCHANGED <<outsideCache, ccPc, ccStep, ccFlushIndex, ccEmptyCount, ccInterval,
                   ccPolls, ccCache, ccSession, ccReported, ccGets, ccGet>>

\* The send of setCanonProperty settles; the cache is not touched.
CacheSetSendDone ==
    /\ ccSetPending
    /\ ccSetPending' = FALSE
    /\ UNCHANGED <<outsideCache, ccPc, ccStep, ccFlushIndex, ccEmptyCount, ccInterval,
                   ccPolls, ccCache, ccSession, ccReported, ccLastSender, ccGets, ccGet>>

\* disconnect(): stopEventPolling(), then disableRemoteMode().
CacheDisconnect ==
    /\ ccPc = "ready"
    /\ ~ccSetPending
    /\ ccPc' = "disconnecting"
    /\ ccInterval' = FALSE
    /\ ccStep' = "CanonSetRemoteMode"
    /\ CacheSend("disconnect")
    /\ UNCHANGED <<outsideCache, ccFlushIndex, ccEmptyCount, ccPolls, ccSetPending,
                   ccCache, ccSession, ccReported, ccGets, ccGet>>

\* A send of disconnect() settles: disableEventMode(), then
\* super.disconnect(); an error rejects disconnect().
CacheDisconnectSendDone(ok) ==
    /\ ccPc = "disconnecting"
    /\ IF ccStep = "CloseSession"
       THEN /\ ccPc' = "closed"
            /\ ccStep' = "none"
            /\ UNCHANGED ccLastSender
       ELSE IF ~ok
       THEN /\ ccPc' = "ready"
            /\ ccStep' = "none"
            /\ UNCHANGED ccLastSender
       ELSE /\ ccStep' = IF ccStep = "CanonSetRemoteMode" THEN "CanonSetEventMode"
                         ELSE "CloseSession"
            /\ CacheSend("disconnect")
            /\ UNCHANGED ccPc
    /\ UNCHANGED <<outsideCache, ccFlushIndex, ccEmptyCount, ccInterval, ccPolls,
                   ccSetPending, ccCache, ccSession, ccReported, ccGets, ccGet>>

NextCanonCache ==
    \/ CacheConnect
    \/ \E ok \in BOOLEAN : CacheConnectSendDone(ok)
    \/ \E ok \in BOOLEAN, events \in CacheBatches : CacheFlushSendDone(ok, events)
    \/ CacheFlushSleepDone
    \/ CacheTimerTick
    \/ \E ok \in BOOLEAN, events \in CacheBatches : CachePollSendDone(ok, events)
    \/ \E p \in CanonProperties : CacheGetCanonProperty(p)
    \/ CacheSetCanonProperty
    \/ CacheSetSendDone
    \/ CacheDisconnect
    \/ \E ok \in BOOLEAN : CacheDisconnectSendDone(ok)

SpecCanonCache == InitCanonCache /\ [][NextCanonCache]_vars

\* C31: getCanonProperty of the cache-only camera sends no operation; it
\* returns the value of the last CanonValueChanged event processed for the
\* property, by the flush or by a poll, and throws when there was none.
C31_CacheOnlyGetReturnsLastEvent ==
    [][ccGets' # ccGets =>
          /\ ccLastSender' = ccLastSender
          /\ ccGet'.outcome =
                IF ccReported[ccGet'.prop].value = NoValue THEN "throws" ELSE "value"
          /\ ccGet'.value = ccReported[ccGet'.prop].value]_vars

\* A poll was the last to send, the last event processed for the aperture
\* reported 1 and the last one for the ISO 2, and getCanonProperty of the
\* aperture returned 1.
C31_Witness ==
    /\ ccGet = [prop |-> "CanonAperture", outcome |-> "value", value |-> 1]
    /\ ccReported["CanonAperture"] = [value |-> 1, session |-> 1]
    /\ ccReported["CanonIso"].value = 2
    /\ ccLastSender = "startEventPolling"
    /\ ccGets = 1

\* C40: a get after disconnect() and a new connect() returns only a value
\* that an event of the new session reported, never one cached in an
\* earlier session.
C40_CacheDoesNotSurviveSession ==
    [][(/\ ccGets' # ccGets
        /\ ccSession >= 2
        /\ ccPc = "ready"
        /\ ccGet'.outcome = "value")
          => ccReported[ccGet'.prop].session = ccSession]_vars

(***************************************************************************)
(* getCanonProperty of the request-and-wait CanonCamera (canon-camera.ts)  *)
(*                                                                         *)
(* Every call is told apart: its promise, its 5 s timer, its send of       *)
(* CanonRequestDevicePropValue and its callback in pendingPropertyRequests.*)
(* Event responses are processed by the interval callbacks and by          *)
(* flushInitialEvents.                                                     *)
(***************************************************************************)

\* getCanonProperty calls in one run.
MaxCalls == 2

CallIds == 1..MaxCalls

\* Variation: the callbacks of every property.
CallbacksForAny(pending, p) == pending["CanonAperture"] \o pending["CanonIso"]

\* The callbacks stored under a property code.
CallbacksFor(pending, p) == pending[p]

\* resolve / reject of a promise: only the first call has an effect.
SettlePromise(call, outcome, value, reason) ==
    IF call.promise = "pending"
    THEN [call EXCEPT !.promise = outcome, !.value = value, !.reason = reason]
    ELSE call

\* wrappedResolve(value): clearTimeout(timeoutId), resolve(value).
WrappedResolve(call, value) ==
    SettlePromise([call EXCEPT !.timer = FALSE], "resolved", value, "none")

\* One event of a poll response: a CanonValueChanged event is cached and
\* handed to the callbacks stored for its property, whose entry is deleted.
PollEvent(st, event) ==
    IF ~IsValueChange(event) THEN st
    ELSE LET p == event.parameters[1]
             value == event.parameters[2]
             callbacks == CallbacksFor(st.pending, p)
             called == {callbacks[k] : k \in DOMAIN callbacks}
         IN  [cache |-> [st.cache EXCEPT ![p] = value],
              calls |-> [c \in DOMAIN st.calls |->
                            IF c \in called THEN WrappedResolve(st.calls[c], value)
                            ELSE st.calls[c]],
              pending |-> [st.pending EXCEPT ![p] = <<>>]]

\* response.data.forEach(event => ...)
RECURSIVE PollEvents(_, _)
PollEvents(st, events) ==
    IF events = <<>> THEN st
    ELSE PollEvents(PollEvent(st, Head(events)), Tail(events))

\* Value of the first event of a batch that reports a value of p.
FirstReport(events, p) ==
    IF ReportsOf(events, p) = {} THEN NoValue
    ELSE events[CHOOSE i \in ReportsOf(events, p) :
                   \A j \in ReportsOf(events, p) : i <= j].parameters[2]

\* The step processes no poll response.
NothingPolled == cwPolled' = [p \in CanonProperties |-> NoValue]

InitCanonWait ==
    /\ QuietTxn
    /\ QuietBulk
    /\ QuietRecv
    /\ QuietListen
    /\ QuietDecode
    /\ QuietPoll
    /\ QuietNikon
    /\ QuietRegistry
    /\ QuietCodec
    /\ QuietLogger
    /\ QuietCache
    /\ QuietWait
    /\ QuietCanon
    /\ QuietSend
    /\ QuietPause
    /\ QuietSdio

\* getCanonProperty(propertyCode): a cached value is returned; otherwise a
\* 5 s timer is armed, the wrapped callback is pushed under the property
\* code and CanonRequestDevicePropValue is sent.
WaitGetCanonProperty(p) ==
    /\ cwNext < MaxCalls
    /\ cwNext' = cwNext + 1
    /\ IF cwCache[p] # NoValue
       THEN /\ cwCalls' = Append(cwCalls,
                             [prop |-> p, promise |-> "resolved",
                              value |-> cwCache[p], reason |-> "none",
                              timer |-> FALSE, send |-> "none"])
            /\ UNCHANGED cwPending
       ELSE /\ cwCalls' = Append(cwCalls,
                             [prop |-> p, promise |-> "pending",
                              value |-> NoValue, reason |-> "none",
                              timer |-> TRUE, send |-> "pending"])
            /\ cwPending' = [cwPending EXCEPT ![p] = Append(@, cwNext + 1)]
    /\ NothingPolled
    /\ UNCHANGED <<outsideWait, cwCache>>

\* The send of a call settles: .catch(reject) on an error.
WaitSendDone(c, ok) ==
    /\ c \in DOMAIN cwCalls
    /\ cwCalls[c].send = "pending"
    /\ cwCalls' = [cwCalls EXCEPT ![c] =
                      IF ok THEN [@ EXCEPT !.send = "done"]
                      ELSE SettlePromise([@ EXCEPT !.send = "done"], "rejected", NoValue,
                                  "send failed")]
    /\ NothingPolled
    /\ UNCHANGED <<outsideWait, cwCache, cwNext, cwPending>>

\* The 5 s timer of a call fires: callbacks.indexOf(resolve) looks for the
\* promise's resolve, the array holds wrappedResolve, so nothing is spliced
\* out and the array is not empty; the promise is rejected.
WaitTimeout(c) ==
    /\ c \in DOMAIN cwCalls
    /\ cwCalls[c].timer
    /\ cwCalls' = [cwCalls EXCEPT ![c] =
                      SettlePromise([@ EXCEPT !.timer = FALSE], "rejected", NoValue, "timeout")]
    /\ NothingPolled
    /\ UNCHANGED <<outsideWait, cwCache, cwNext, cwPending>>

\* The send of an interval callback resolves with `events`.
WaitPollSendDone(events) ==
    /\ LET st == PollEvents([cache |-> cwCache, calls |-> cwCalls,
                             pending |-> cwPending], events)
       IN  /\ cwCache' = st.cache
           /\ cwCalls' = st.calls
           /\ cwPending' = st.pending
    /\ cwPolled' = [p \in CanonProperties |-> FirstReport(events, p)]
    /\ UNCHANGED <<outsideWait, cwNext>>

\* A CanonGetEventData of flushInitialEvents resolves with `events`: they
\* are cached, no callback is called.
WaitFlushSendDone(events) ==
    /\ cwCache' = Cached(cwCache, events)
    /\ NothingPolled
    /\ UNCHANGED <<outsideWait, cwCalls, cwNext, cwPending>>

NextCanonWait ==
    \/ \E p \in CanonProperties : WaitGetCanonProperty(p)
    \/ \E c \in CallIds, ok \in BOOLEAN : WaitSendDone(c, ok)
    \/ \E c \in CallIds : WaitTimeout(c)
    \/ \E events \in CacheBatches : WaitPollSendDone(events)
    \/ \E events \in CacheBatches : WaitFlushSendDone(events)

SpecCanonWait == InitCanonWait /\ [][NextCanonWait]_vars

\* setTimeout(..., 5000): an armed timer fires unless it is cleared.
FairCanonWait ==
    /\ InitCanonWait
    /\ [][NextCanonWait]_vars
    /\ \A c \in CallIds : WF_vars(WaitTimeout(c))

Unsettled(c) == c \in DOMAIN cwCalls /\ cwCalls[c].promise = "pending"

\* C32: a getCanonProperty call for an uncached property settles, and only
\* once: a poll that processes a CanonValueChanged event for its property
\* resolves it with that event's value, nothing else resolves it, and it is
\* rejected only by its timer or by the failure of its send.
C32_UncachedGetSettlesOnce ==
    /\ \A c \in CallIds : Unsettled(c) ~> ~Unsettled(c)
    /\ [][\A c \in DOMAIN cwCalls :
             /\ ~Unsettled(c) =>
                   /\ cwCalls'[c].promise = cwCalls[c].promise
                   /\ cwCalls'[c].value = cwCalls[c].value
                   /\ cwCalls'[c].reason = cwCalls[c].reason
             /\ (Unsettled(c) /\ cwPolled'[cwCalls[c].prop] # NoValue) =>
                   /\ cwCalls'[c].promise = "resolved"
                   /\ cwCalls'[c].value = cwPolled'[cwCalls[c].prop]
             /\ (Unsettled(c) /\ cwCalls'[c].promise = "resolved") =>
                   cwPolled'[cwCalls[c].prop] # NoValue
             /\ (Unsettled(c) /\ cwCalls'[c].promise = "rejected") =>
                   \/ cwCalls'[c].reason = "timeout" /\ cwCalls[c].timer
                                                     /\ ~cwCalls'[c].timer
                   \/ cwCalls'[c].reason = "send failed" /\ cwCalls[c].send = "pending"
                                                         /\ cwCalls'[c].send = "done"]_vars

\* Two uncached calls: the one for the aperture was resolved by a poll that
\* reported the aperture, the one for the ISO was rejected by its timer.
C32_Witness ==
    /\ Len(cwCalls) = 2
    /\ cwCalls[1] = [prop |-> "CanonAperture", promise |-> "resolved",
                     value |-> 2, reason |-> "none", timer |-> FALSE, send |-> "done"]
    /\ cwCalls[2].prop = "CanonIso"
    /\ cwCalls[2].promise = "rejected"
    /\ cwCalls[2].reason = "timeout"
    /\ cwCache["CanonIso"] = NoValue

\* C34: pendingPropertyRequests holds only callbacks of getCanonProperty
\* calls that have not settled.
C34_PendingHoldsOnlyUnsettled ==
    \A p \in CanonProperties : \A k \in DOMAIN cwPending[p] : Unsettled(cwPending[p][k])

(***************************************************************************)
(* SonySDIOParser.processChunk (sony-sdio-parser.ts)                       *)
(*                                                                         *)
(* A chunk is its header bytes and the number of bytes that follow them;   *)
(* whether an assembled frame holds the markers parseSDIOData looks for is *)
(* an input of the call.                                                   *)
(***************************************************************************)

\* processChunk calls in one run.
MaxChunks == 3

\* const SDIO_HEADER_SIZE = 8
SDIO_HEADER_SIZE == 8

\* new Uint8Array(1024 * 1024)
FrameBufferLength == 1048576

\* if (data.length < 136) return null
MinSDIOLength == 136

PacketTypes == {1, 2, 3, 257}

PacketSizes == {0, 200, 1048576, 16777216}

PayloadLengths == {0, 200, 524288, 1048576, 1048577}

SdioHeader(packetType, packetSize) ==
    Uint16LE(packetType) \o <<0, 0>> \o Uint32LE(packetSize)

SdioChunks ==
    {[header |-> SdioHeader(t, sz), payload |-> n] :
        t \in PacketTypes, sz \in PacketSizes, n \in PayloadLengths}
    \cup {[header |-> SubSeq(SdioHeader(1, 200), 1, k), payload |-> 0] : k \in {0, 7}}

ChunkLength(chunk) == Len(chunk.header) + chunk.payload

\* Variation: the payload is appended whatever its length.
FitsAlways(size, n) == TRUE

\* if (this.frameSize + data.length <= this.frameBuffer.length)
Fits(size, n) == size + n <= FrameBufferLength

\* parseSDIOData(data): null for less than 136 bytes or missing markers.
ParseSDIOData(length, markers) ==
    IF length < MinSDIOLength \/ ~markers THEN "null" ELSE "frame"

InitSdio ==
    /\ QuietTxn
    /\ QuietBulk
    /\ QuietRecv
    /\ QuietListen
    /\ QuietDecode
    /\ QuietPoll
    /\ QuietNikon
    /\ QuietRegistry
    /\ QuietCodec
    /\ QuietLogger
    /\ QuietSdio
    /\ QuietCache
    /\ QuietWait
    /\ QuietCanon
    /\ QuietSend
    /\ QuietPause

\* processChunk(chunk)
ProcessChunk(chunk, markers) ==
    /\ sdCalls < MaxChunks
    /\ sdCalls' = sdCalls + 1
    /\ sdChunk' = chunk
    /\ IF ChunkLength(chunk) < SDIO_HEADER_SIZE
       THEN /\ sdReturned' = "null"
            /\ UNCHANGED frameSize
       ELSE LET packetType == GetUint16(chunk.header, 0)
                packetSize == GetUint32(chunk.header, 4)
                start == IF packetType = 1 THEN 0 ELSE frameSize
                dataStart == SDIO_HEADER_SIZE
                dataEnd == Min(ChunkLength(chunk), dataStart + packetSize)
                dataLength == dataEnd - dataStart
            IN  /\ frameSize' = IF Fits(start, dataLength) THEN start + dataLength
                                ELSE start
                /\ sdReturned' = IF packetType = 2
                                 THEN ParseSDIOData(frameSize', markers)
                                 ELSE "null"
    /\ UNCHANGED outsideSdio

NextSdio == \E chunk \in SdioChunks, markers \in BOOLEAN : ProcessChunk(chunk, markers)

SpecSdio == InitSdio /\ [][NextSdio]_vars

\* Packet type and payload of the chunk of the last call, read off the chunk.
TypeOf(chunk) == chunk.header[1] + 256 * chunk.header[2]

PayloadOf(chunk) ==
    LET size == chunk.header[5] + 256 * chunk.header[6] + 65536 * chunk.header[7]
                    + 16777216 * chunk.header[8]
    IN  IF chunk.payload < size THEN chunk.payload ELSE size

\* C33: frameSize stays within 0 .. 1 MiB; a start-of-frame packet resets it
\* to 0 before its payload is appended, a payload that does not fit is
\* dropped, a chunk shorter than the header changes nothing, and a frame is
\* returned only for an end-of-frame packet.
C33_FrameSizeWithinBuffer ==
    /\ [](frameSize >= 0 /\ frameSize <= 1048576)
    /\ [][sdCalls' # sdCalls =>
            IF Len(sdChunk'.header) + sdChunk'.payload < 8
            THEN frameSize' = frameSize /\ sdReturned' = "null"
            ELSE LET before == IF TypeOf(sdChunk') = 1 THEN 0 ELSE frameSize
                 IN  /\ frameSize' = IF before + PayloadOf(sdChunk') <= 1048576
                                     THEN before + PayloadOf(sdChunk')
                                     ELSE before
                     /\ sdReturned' = "frame" => TypeOf(sdChunk') = 2]_vars

\* A full buffer, then an end-of-frame packet whose payload does not fit:
\* the payload is dropped and the frame of 1 MiB is returned.
C33_Witness ==
    /\ frameSize = FrameBufferLength
    /\ sdCalls = 2
    /\ Len(sdChunk.header) = 8
    /\ TypeOf(sdChunk) = 2
    /\ sdChunk.payload = 200
    /\ PayloadOf(sdChunk) = 200
    /\ sdReturned = "frame"

(***************************************************************************)
(* CanonCamera that pauses event polling (sony-sdio-parser.ts 127-376)     *)
(*                                                                         *)
(* setCanonProperty and captureImage pause the polling interval, wait      *)
(* 250 ms, send, and resume in a finally block.  Callers start and stop    *)
(* the interval and may call the two methods while an earlier call has not *)
(* returned.                                                               *)
(***************************************************************************)

\* Interval callbacks awaiting their send at the same time.
MaxPausePolls == 1

\* Awaited sends of a call: CanonSetPropValue; the four releases of
\* captureImage and, when polling was on, its CanonGetEventData.
SendsOf(call) ==
    IF call.method = "setCanonProperty" THEN 1
    ELSE IF call.wasPolling THEN 5 ELSE 4

NoCall == [method |-> "none", wasPolling |-> FALSE, step |-> 0]

InitCanonPause ==
    /\ QuietTxn
    /\ QuietBulk
    /\ QuietRecv
    /\ QuietListen
    /\ QuietDecode
    /\ QuietPoll
    /\ QuietNikon
    /\ QuietRegistry
    /\ QuietCodec
    /\ QuietLogger
    /\ QuietSdio
    /\ QuietPause
    /\ QuietCache
    /\ QuietWait
    /\ QuietCanon
    /\ QuietSend

\* startEventPolling(): setInterval unless an interval is set.
PauseStartEventPolling ==
    /\ ~cpInterval
    /\ cpInterval' = TRUE
    /\ UNCHANGED <<outsidePause, isPollingPaused, cpCalls, cpPolls>>

\* stopEventPolling(): clearInterval.
PauseStopEventPolling ==
    /\ cpInterval
    /\ cpInterval' = FALSE
    /\ UNCHANGED <<outsidePause, isPollingPaused, cpCalls, cpPolls>>

\* setCanonProperty / captureImage is called: wasPolling is read; when set,
\* pauseEventPolling() and waitMs(250) (step 0); otherwise the first send.
PauseCall(c, method) ==
    /\ cpCalls[c].method = "none"
    /\ cpCalls' = [cpCalls EXCEPT ![c] =
                      [method |-> method, wasPolling |-> cpInterval,
                       step |-> IF cpInterval THEN 0 ELSE 1]]
    /\ isPollingPaused' = IF cpInterval THEN TRUE ELSE isPollingPaused
    /\ UNCHANGED <<outsidePause, cpInterval, cpPolls>>

\* waitMs(250) is over: the first send.
PauseWaitDone(c) ==
    /\ cpCalls[c].method # "none"
    /\ cpCalls[c].step = 0
    /\ cpCalls' = [cpCalls EXCEPT ![c].step = 1]
    /\ UNCHANGED <<outsidePause, cpInterval, isPollingPaused, cpPolls>>

\* A send of the call settles: the next send, or, after the last one or an
\* error, the finally block: resumeEventPolling() when wasPolling.
PauseSendDone(c, ok) ==
    /\ cpCalls[c].method # "none"
    /\ cpCalls[c].step >= 1
    /\ IF ok /\ cpCalls[c].step < SendsOf(cpCalls[c])
       THEN /\ cpCalls' = [cpCalls EXCEPT ![c].step = @ + 1]
            /\ UNCHANGED isPollingPaused
       ELSE /\ cpCalls' = [cpCalls EXCEPT ![c] = NoCall]
            /\ isPollingPaused' = IF cpCalls[c].wasPolling THEN FALSE
                                  ELSE isPollingPaused
    /\ UNCHANGED <<outsidePause, cpInterval, cpPolls>>

\* The interval fires: nothing while isPollingPaused, else the callback
\* sends CanonGetEventData.
PauseTimerTick ==
    /\ cpInterval
    /\ ~isPollingPaused
    /\ cpPolls < MaxPausePolls
    /\ cpPolls' = cpPolls + 1
    /\ UNCHANGED <<outsidePause, cpInterval, isPollingPaused, cpCalls>>

\* The send of an interval callback settles.
PausePollSendDone ==
    /\ cpPolls > 0
    /\ cpPolls' = cpPolls - 1
    /\ UNCHANGED <<outsidePause, cpInterval, isPollingPaused, cpCalls>>

NextCanonPause ==
    \/ PauseStartEventPolling
    \/ PauseStopEventPolling
    \/ \E c \in Callers, method \in {"setCanonProperty", "captureImage"} :
          PauseCall(c, method)
    \/ \E c \in Callers : PauseWaitDone(c)
    \/ \E c \in Callers, ok \in BOOLEAN : PauseSendDone(c, ok)
    \/ PauseTimerTick
    \/ PausePollSendDone

SpecCanonPause == InitCanonPause /\ [][NextCanonPause]_vars

\* The call is between its pauseEventPolling() and its resumeEventPolling().
BetweenPauseAndResume(c) == cpCalls[c].method # "none" /\ cpCalls[c].wasPolling

\* C39: while a setCanonProperty or captureImage call is between its
\* pauseEventPolling() and its resumeEventPolling(), no interval callback
\* starts a CanonGetEventData operation, overlapping calls included.
C39_NoPollWhilePaused ==
    [][cpPolls' > cpPolls => \A c \in Callers : ~BetweenPauseAndResume(c)]_vars

(***************************************************************************)
(* send() of the USBTransport variants                                     *)
(*                                                                         *)
(*   "listener"  persistent-listener USBTransport (part_001)               *)
(*   "plain"     USBTransport of usb-transport.ts                          *)
(*   "retrying"  first USBTransport of tests/07_nikon.ts                   *)
(*   "logging"   second USBTransport of tests/07_nikon.ts                  *)
(***************************************************************************)

\* Cap on the send() calls of one behaviour.
MaxSends == 3

SendVariants == {"listener", "plain", "retrying", "logging"}

InitSend ==
    /\ QuietTxn
    /\ QuietBulk
    /\ QuietRecv
    /\ QuietListen
    /\ QuietDecode
    /\ QuietPoll
    /\ QuietNikon
    /\ QuietRegistry
    /\ QuietCodec
    /\ QuietLogger
    /\ QuietSdio
    /\ QuietCache
    /\ QuietWait
    /\ QuietCanon
    /\ QuietPause
    /\ svVariant \in SendVariants
    /\ svConnected = FALSE
    /\ svPc = "idle"
    /\ svStatus = "none"
    /\ svTransfers = 0
    /\ svOutcome = "none"
    /\ svSends = 0

\* The transport gets connected or disconnected between two sends.
VariantConnection(conn) ==
    /\ svPc = "idle"
    /\ svConnected # conn
    /\ svConnected' = conn
    /\ UNCHANGED <<outsideSend, svVariant, svPc, svStatus, svTransfers, svOutcome,
                   svSends>>

\* send(data, sessionId, transactionId): 'Not connected' or the first
\* device.transferOut.
VariantSend ==
    /\ svPc = "idle"
    /\ svSends < MaxSends
    /\ svSends' = svSends + 1
    /\ svStatus' = "none"
    /\ IF ~svConnected
       THEN /\ svOutcome' = "rejected"
            /\ svTransfers' = 0
            /\ UNCHANGED svPc
       ELSE /\ svOutcome' = "none"
            /\ svTransfers' = 1
            /\ svPc' = "transfer"
    /\ UNCHANGED <<outsideSend, svVariant, svConnected>>

\* Which variants answer a stalled transferOut with STALL recovery and a
\* second transferOut.
RetriesAfterStall(variant) == variant \in {"listener", "retrying"}

\* The check on the final result.status, where there is one: the logging
\* variant has none.
ThrowsUnlessOk(variant) == variant # "logging"

\* What send() does with the result of its last transferOut.
FinalStatus(variant, status) ==
    /\ svPc' = "idle"
    /\ svOutcome' = IF status # "ok" /\ ThrowsUnlessOk(variant) THEN "rejected"
                                                                ELSE "resolved"

\* The first transferOut resolves with `status`.
VariantTransferOutDone(status) ==
    /\ svPc = "transfer"
    /\ svStatus' = status
    /\ IF status = "stall" /\ RetriesAfterStall(svVariant)
       THEN /\ svPc' = "recovery"
            /\ UNCHANGED svOutcome
       ELSE IF status = "stall" /\ svVariant = "logging"
       THEN /\ svPc' = "clearHalt"
            /\ UNCHANGED svOutcome
       ELSE FinalStatus(svVariant, status)
    /\ UNCHANGED <<outsideSend, svVariant, svConnected, svTransfers, svSends>>

\* device.transferOut rejects: send() rejects with the error.
VariantTransferOutThrows ==
    /\ svPc \in {"transfer", "retry"}
    /\ svPc' = "idle"
    /\ svOutcome' = "rejected"
    /\ UNCHANGED <<outsideSend, svVariant, svConnected, svStatus, svTransfers, svSends>>

\* handleStallError(BULK_OUT) / clearStall(BULK_OUT) ends: it returns and
\* transferOut is called again, or it throws and so does send().
VariantRecoveryDone(ok) ==
    /\ svPc = "recovery"
    /\ IF ok
       THEN /\ svPc' = "retry"
            /\ svTransfers' = svTransfers + 1
            /\ UNCHANGED svOutcome
       ELSE /\ svPc' = "idle"
            /\ svOutcome' = "rejected"
            /\ UNCHANGED svTransfers
    /\ UNCHANGED <<outsideSend, svVariant, svConnected, svStatus, svSends>>

\* The second transferOut resolves with `status`.
VariantRetryDone(status) ==
    /\ svPc = "retry"
    /\ svStatus' = status
    /\ FinalStatus(svVariant, status)
    /\ UNCHANGED <<outsideSend, svVariant, svConnected, svTransfers, svSends>>

\* clearHalt(BULK_OUT) of the logging variant ends; an error of
\* device.clearHalt is caught inside it.  send() returns.
VariantClearHaltDone ==
    /\ svPc = "clearHalt"
    /\ svPc' = "idle"
    /\ svOutcome' = "resolved"
    /\ UNCHANGED <<outsideSend, svVariant, svConnected, svStatus, svTransfers, svSends>>

NextSend ==
    \/ \E conn \in BOOLEAN : VariantConnection(conn)
    \/ VariantSend
    \/ \E status \in TransferStatus : VariantTransferOutDone(status)
    \/ VariantTransferOutThrows
    \/ \E ok \in BOOLEAN : VariantRecoveryDone(ok)
    \/ \E status \in TransferStatus : VariantRetryDone(status)
    \/ VariantClearHaltDone

SpecSend == InitSend /\ [][NextSend]_vars

\* C38: in every variant a send() that resolved had a bulk-OUT transfer of
\* the container complete with status 'ok', and that was its last one: with
\* any other final status (stall, babble) send() rejects.
C38_SendResolvesOnlyOnOk ==
    svOutcome = "resolved" => svStatus = "ok"

(***************************************************************************)
(* CanonCamera over the transaction engine                                 *)
(*                                                                         *)
(* Every operation of CanonCamera goes through GenericCamera.send.  The    *)
(* engine behind send is modelled after the specification's ordering       *)
(* guarantee: a FIFO queue per session and one operation on the wire.      *)
(* Callers use the camera once connect() has resolved, ask for a property  *)
(* again only when the request of their previous call has left the engine, *)
(* call disconnect() when their own operations have settled (interval      *)
(* callbacks may still be under way), and connect again only when the      *)
(* engine has drained.                                                     *)
(***************************************************************************)

\* Interval callbacks awaiting their send at the same time.
MaxPolls == 2

\* Callbacks kept for one property in pendingPropertyRequests.
MaxPending == 1

\* Operations callers leave waiting in the queue before they submit more.
MaxQueue == 2

\* Events one CanonGetEventData response carries.
MaxEventsPerPoll == 1

\* dataDirection of the operation definitions.
DataDirection(op) ==
    IF op = "CanonSetPropValue" THEN "in"
    ELSE IF op = "CanonGetEventData" THEN "out"
    ELSE "none"

\* The sends of captureImage, in order.
CaptureOps == <<"CanonRemoteReleaseOn FOCUS", "CanonRemoteReleaseOn SHUTTER",
                "CanonRemoteReleaseOff SHUTTER", "CanonRemoteReleaseOff FOCUS">>

\* Decoded events of a CanonGetEventData response: CanonValueChanged
\* (0xC189) with property code and value, or any other event.
CanonEvents ==
    [kind : {"CanonValueChanged"}, prop : Props, value : Values]
        \cup {[kind |-> "other", prop |-> NoProp, value |-> NoValue]}

EventBatches == UNION {[1..n -> CanonEvents] : n \in 0..MaxEventsPerPoll}

ChangesOf(events, p) ==
    {i \in DOMAIN events : events[i].kind = "CanonValueChanged" /\ events[i].prop = p}

\* Value of the first / last CanonValueChanged event for p in a batch.
FirstValue(events, p) ==
    IF ChangesOf(events, p) = {} THEN NoValue
    ELSE events[CHOOSE i \in ChangesOf(events, p) :
                    \A j \in ChangesOf(events, p) : i <= j].value

LastValue(events, p) ==
    IF ChangesOf(events, p) = {} THEN NoValue
    ELSE events[CHOOSE i \in ChangesOf(events, p) :
                    \A j \in ChangesOf(events, p) : i >= j].value

\* this.propertyCache.set(propCode, value) for every CanonValueChanged event.
CacheAfter(events) ==
    [p \in Props |-> IF LastValue(events, p) = NoValue THEN propertyCache[p]
                     ELSE LastValue(events, p)]

Request(caller, op, prop) == [caller |-> caller, op |-> op, prop |-> prop]

\* GenericCamera.send: the operation joins the session's queue.
CameraSend(req) == queue' = Append(queue, req)

\* Callers submit a new operation only while the queue is short.
QueueHasRoom == Len(queue) < MaxQueue

\* Variation: the engine starts an operation whenever one is queued.
EngineIdleAlways == TRUE

\* The engine starts the next operation only when none is on the wire.
EngineIdle == inflight = <<>>

\* The step receives no CanonGetEventData response.
NoResponse ==
    /\ returnedEvents' = <<>>
    /\ handledEvents' = <<>>

\* An event response has arrived: no set counts as fresh any more.
NoFreshSet == [p \in Props |-> NoValue]

InitCanon ==
    /\ QuietTxn
    /\ QuietBulk
    /\ QuietRecv
    /\ QuietListen
    /\ QuietCanon
    /\ QuietSend
    /\ QuietPause
    /\ QuietSdio
    /\ QuietWait
    /\ QuietCache
    /\ QuietLogger
    /\ QuietCodec
    /\ QuietRegistry
    /\ QuietNikon
    /\ QuietPoll
    /\ QuietDecode

\* The engine takes the head of the queue and transmits its COMMAND.
EngineTransmit ==
    /\ queue # <<>>
    /\ EngineIdle
    /\ inflight' = Append(inflight, [req |-> Head(queue), phase |-> "COMMAND"])
    /\ queue' = Tail(queue)
    /\ NoResponse
    /\ UNCHANGED <<outsideCanon, setVars, handshakeVars, camVars, callerVars, propVars>>

\* The data phase of an operation that has one.
EngineDataPhase(i) ==
    /\ i \in DOMAIN inflight
    /\ inflight[i].phase = "COMMAND"
    /\ DataDirection(inflight[i].req.op) # "none"
    /\ inflight' = [inflight EXCEPT ![i].phase = "DATA"]
    /\ NoResponse
    /\ UNCHANGED <<outsideCanon, setVars, handshakeVars, camVars, callerVars, propVars, queue>>

\* Operation i of `caller` ends: with its RESPONSE once all its phases are
\* through (ok), or with an error at any point.
Completes(i, caller, ok) ==
    /\ i \in DOMAIN inflight
    /\ inflight[i].req.caller = caller
    /\ ok => inflight[i].phase =
                IF DataDirection(inflight[i].req.op) = "none" THEN "COMMAND" ELSE "DATA"
    /\ inflight' = SubSeq(inflight, 1, i - 1) \o SubSeq(inflight, i + 1, Len(inflight))

\* this.sessionId = 1
CanonSessionId == 1

\* await this.send(...): a rejected send throws out of connect().
AwaitThrows(ok) == ~ok

\* connect(): (transport.connect,) sessionId = 1, send OpenSession with
\* SessionID = this.sessionId.
CanonConnect ==
    /\ camPc \in {"new", "closed", "failed"}
    /\ queue = <<>> /\ inflight = <<>>
    /\ camPc' = "connecting"
    /\ connStep' = "OpenSession"
    /\ sessionId' = CanonSessionId
    /\ connSent' = <<"OpenSession">>
    /\ connAcked' = {}
    /\ connFailed' = {}
    /\ CameraSend(Request("connect", "OpenSession", NoProp))
    /\ NoResponse
    /\ UNCHANGED <<outsideCanon, setVars, flushIndex, emptyCount, remoteModeEnabled,
                   eventModeEnabled, discStep, callerVars, propVars, inflight>>

\* startEventPolling() at the end of connect(): setInterval unless an
\* interval is already set.
FinishConnect ==
    /\ camPc' = "ready"
    /\ connStep' = "none"
    /\ eventPollingInterval' = TRUE

\* OpenSession, enableRemoteMode or enableEventMode settles; a failure
\* rejects connect().
ConnectSendDone(i, ok) ==
    /\ connStep \in {"OpenSession", "CanonSetRemoteMode", "CanonSetEventMode"}
    /\ Completes(i, "connect", ok)
    /\ connAcked' = IF ok THEN connAcked \cup {connStep} ELSE connAcked
    /\ connFailed' = IF ok THEN connFailed ELSE connFailed \cup {connStep}
    /\ IF AwaitThrows(ok)
       THEN /\ camPc' = "failed"
            /\ connStep' = "none"
            /\ UNCHANGED <<queue, remoteModeEnabled, eventModeEnabled, flushIndex,
                           emptyCount, connSent>>
       ELSE IF connStep = "OpenSession"
       THEN /\ connStep' = "CanonSetRemoteMode"
            /\ connSent' = Append(connSent, "CanonSetRemoteMode")
            /\ CameraSend(Request("connect", "CanonSetRemoteMode", NoProp))
            /\ UNCHANGED <<camPc, remoteModeEnabled, eventModeEnabled, flushIndex,
                           emptyCount>>
       ELSE IF connStep = "CanonSetRemoteMode"
       THEN /\ remoteModeEnabled' = TRUE
            /\ connStep' = "CanonSetEventMode"
            /\ connSent' = Append(connSent, "CanonSetEventMode")
            /\ CameraSend(Request("connect", "CanonSetEventMode", NoProp))
            /\ UNCHANGED <<camPc, eventModeEnabled, flushIndex, emptyCount>>
       ELSE /\ eventModeEnabled' = TRUE
            /\ connStep' = "flush"
            /\ flushIndex' = 0
            /\ emptyCount' = 0
            /\ connSent' = Append(connSent, "CanonGetEventData")
            /\ CameraSend(Request("connect", "CanonGetEventData", NoProp))
            /\ UNCHANGED <<camPc, remoteModeEnabled>>
    /\ NoResponse
    /\ UNCHANGED <<outsideCanon, setVars, discStep, callerVars, propVars, sessionId>>

\* A CanonGetEventData of flushInitialEvents settles: events go to the
\* cache; the third empty answer in a row, or an error, ends the loop.
FlushSendDone(i, ok, events) ==
    /\ connStep = "flush"
    /\ Completes(i, "connect", ok)
    /\ ~ok => events = <<>>
    /\ connAcked' = IF ok THEN connAcked \cup {"CanonGetEventData"} ELSE connAcked
    /\ connFailed' = IF ok THEN connFailed ELSE connFailed \cup {"CanonGetEventData"}
    /\ returnedEvents' = events
    /\ handledEvents' = <<>>
    /\ freshSet' = NoFreshSet
    /\ UNCHANGED setArg
    /\ IF ~ok
       THEN /\ FinishConnect
            /\ UNCHANGED <<emptyCount, propertyCache>>
       ELSE IF events # <<>>
       THEN /\ propertyCache' = CacheAfter(events)
            /\ emptyCount' = 0
            /\ connStep' = "flushSleep"
            /\ UNCHANGED <<camPc, eventPollingInterval>>
       ELSE /\ emptyCount' = emptyCount + 1
            /\ IF emptyCount + 1 >= MaxEmptyBeforeStop
               THEN FinishConnect
               ELSE /\ connStep' = "flushSleep"
                    /\ UNCHANGED <<camPc, eventPollingInterval>>
            /\ UNCHANGED propertyCache
    /\ UNCHANGED <<outsideCanon, sessionId, connSent, flushIndex, remoteModeEnabled,
                   eventModeEnabled, discStep, pollsInFlight, setPending, capturePc,
                   getState, getValue, pendingPropertyRequests, queue>>

\* The 50 ms delay between two flush polls ends: i++, next poll or loop end.
FlushSleepDone ==
    /\ connStep = "flushSleep"
    /\ flushIndex' = flushIndex + 1
    /\ IF flushIndex + 1 < FlushMax
       THEN /\ connStep' = "flush"
            /\ CameraSend(Request("connect", "CanonGetEventData", NoProp))
            /\ UNCHANGED <<camPc, eventPollingInterval>>
       ELSE /\ FinishConnect
            /\ UNCHANGED queue
    /\ NoResponse
    /\ UNCHANGED <<outsideCanon, setVars, handshakeVars, emptyCount, remoteModeEnabled, eventModeEnabled,
                   discStep, pollsInFlight, setPending, capturePc, propVars,
                   inflight>>

\* The interval fires: isPollingPaused is never set, so the callback sends
\* CanonGetEventData whether or not an earlier callback still awaits its own.
TimerTick ==
    /\ eventPollingInterval
    /\ QueueHasRoom
    /\ pollsInFlight < MaxPolls
    /\ pollsInFlight' = pollsInFlight + 1
    /\ CameraSend(Request("poll", "CanonGetEventData", NoProp))
    /\ NoResponse
    /\ UNCHANGED <<outsideCanon, setVars, handshakeVars, camVars, eventPollingInterval, setPending,
                   capturePc, propVars, inflight>>

\* The send of an interval callback settles: every CanonValueChanged event
\* is cached and handed to the callbacks waiting for its property, whose
\* entry is then deleted; an error is swallowed.
PollSendDone(i, ok, events) ==
    /\ Completes(i, "poll", ok)
    /\ ~ok => events = <<>>
    /\ pollsInFlight' = pollsInFlight - 1
    /\ returnedEvents' = events
    /\ handledEvents' = events
    /\ freshSet' = NoFreshSet
    /\ UNCHANGED setArg
    /\ propertyCache' = CacheAfter(events)
    /\ pendingPropertyRequests' =
          [p \in Props |-> IF FirstValue(events, p) = NoValue
                           THEN pendingPropertyRequests[p] ELSE 0]
    /\ getState' =
          [p \in Props |-> IF FirstValue(events, p) # NoValue /\ getState[p] = "waiting"
                           THEN "value" ELSE getState[p]]
    /\ getValue' =
          [p \in Props |-> IF FirstValue(events, p) # NoValue /\ getState[p] = "waiting"
                           THEN FirstValue(events, p) ELSE getValue[p]]
    /\ UNCHANGED <<outsideCanon, handshakeVars, camVars, eventPollingInterval, setPending,
                   capturePc, queue>>

\* setCanonProperty(propertyCode, value): send CanonSetPropValue with data.
SetCanonProperty(p, value) ==
    /\ camPc = "ready"
    /\ QueueHasRoom
    /\ ~setPending
    /\ setPending' = TRUE
    /\ setArg' = [prop |-> p, value |-> value]
    /\ freshSet' = [freshSet EXCEPT ![p] = NoValue]
    /\ CameraSend(Request("set", "CanonSetPropValue", p))
    /\ NoResponse
    /\ UNCHANGED <<outsideCanon, handshakeVars, camVars, eventPollingInterval, pollsInFlight,
                   capturePc, propVars, inflight>>

\* The send of setCanonProperty settles, and the call with it; the
\* property cache is not touched.
SetSendDone(i, ok) ==
    /\ Completes(i, "set", ok)
    /\ setPending' = FALSE
    /\ setArg' = [prop |-> NoProp, value |-> NoValue]
    /\ freshSet' = IF ok THEN [freshSet EXCEPT ![setArg.prop] = setArg.value] ELSE freshSet
    /\ NoResponse
    /\ UNCHANGED <<outsideCanon, handshakeVars, camVars, eventPollingInterval, pollsInFlight,
                   capturePc, propVars, queue>>

\* captureImage(): the first of four sends, each awaited.
CaptureImage ==
    /\ camPc = "ready"
    /\ QueueHasRoom
    /\ capturePc = 0
    /\ capturePc' = 1
    /\ CameraSend(Request("capture", CaptureOps[1], NoProp))
    /\ NoResponse
    /\ UNCHANGED <<outsideCanon, setVars, handshakeVars, camVars, eventPollingInterval, pollsInFlight,
                   setPending, propVars, inflight>>

\* A send of captureImage settles: the next one, or the end (an error
\* rejects captureImage).
CaptureSendDone(i, ok) ==
    /\ Completes(i, "capture", ok)
    /\ IF ok /\ capturePc < Len(CaptureOps)
       THEN /\ capturePc' = capturePc + 1
            /\ CameraSend(Request("capture", CaptureOps[capturePc + 1], NoProp))
       ELSE /\ capturePc' = 0
            /\ UNCHANGED queue
    /\ NoResponse
    /\ UNCHANGED <<outsideCanon, setVars, handshakeVars, camVars, eventPollingInterval, pollsInFlight,
                   setPending, propVars>>

\* No CanonRequestDevicePropValue for p is queued or on the wire.
NoRequestPending(p) ==
    /\ \A k \in DOMAIN queue : ~(queue[k].caller = "get" /\ queue[k].prop = p)
    /\ \A k \in DOMAIN inflight :
          ~(inflight[k].req.caller = "get" /\ inflight[k].req.prop = p)

\* getCanonProperty(propertyCode): a cached value is returned; otherwise a
\* 5 s timer, a callback in pendingPropertyRequests and the send of
\* CanonRequestDevicePropValue.
GetCanonProperty(p) ==
    /\ camPc = "ready"
    /\ QueueHasRoom
    /\ getState[p] # "waiting"
    /\ NoRequestPending(p)
    /\ IF propertyCache[p] # NoValue
       THEN /\ getState' = [getState EXCEPT ![p] = "value"]
            /\ getValue' = [getValue EXCEPT ![p] = propertyCache[p]]
            /\ UNCHANGED <<pendingPropertyRequests, queue>>
       ELSE /\ pendingPropertyRequests[p] < MaxPending
            /\ getState' = [getState EXCEPT ![p] = "waiting"]
            /\ getValue' = [getValue EXCEPT ![p] = NoValue]
            /\ pendingPropertyRequests' =
                  [pendingPropertyRequests EXCEPT ![p] = @ + 1]
            /\ CameraSend(Request("get", "CanonRequestDevicePropValue", p))
    /\ NoResponse
    /\ UNCHANGED <<outsideCanon, setVars, handshakeVars, camVars, callerVars, propertyCache, inflight>>

\* The send of getCanonProperty settles: .catch(reject) on an error.
GetSendDone(i, ok) ==
    /\ Completes(i, "get", ok)
    /\ getState' =
          [p \in Props |-> IF ~ok /\ p = inflight[i].req.prop /\ getState[p] = "waiting"
                           THEN "send failed" ELSE getState[p]]
    /\ NoResponse
    /\ UNCHANGED <<outsideCanon, setVars, handshakeVars, camVars, callerVars, getValue, propertyCache,
                   pendingPropertyRequests, queue>>

\* The 5 s timer of getCanonProperty fires: indexOf(resolve) does not find
\* the wrapped callback, so nothing is removed; the promise is rejected.
GetTimeout(p) ==
    /\ getState[p] = "waiting"
    /\ getState' = [getState EXCEPT ![p] = "timeout"]
    /\ NoResponse
    /\ UNCHANGED <<outsideCanon, setVars, handshakeVars, camVars, callerVars, getValue, propertyCache,
                   pendingPropertyRequests, queue, inflight>>

\* The caller has no setCanonProperty, captureImage or getCanonProperty
\* call under way.
CallerIdle ==
    /\ ~setPending
    /\ capturePc = 0
    /\ \A p \in Props : getState[p] # "waiting" /\ NoRequestPending(p)

\* disconnect(): stopEventPolling(), then disableRemoteMode().
CanonDisconnect ==
    /\ camPc = "ready"
    /\ QueueHasRoom
    /\ CallerIdle
    /\ camPc' = "disconnecting"
    /\ eventPollingInterval' = FALSE
    /\ discStep' = "CanonSetRemoteMode"
    /\ CameraSend(Request("disconnect", "CanonSetRemoteMode", NoProp))
    /\ NoResponse
    /\ UNCHANGED <<outsideCanon, setVars, handshakeVars, connStep, flushIndex, emptyCount,
                   remoteModeEnabled, eventModeEnabled, pollsInFlight, setPending,
                   capturePc, propVars, inflight>>

\* A send of disconnect() settles: disableEventMode(), then
\* super.disconnect() closes the session; an error of the first two rejects
\* disconnect() with the camera still connected.
DisconnectSendDone(i, ok) ==
    /\ discStep # "none"
    /\ Completes(i, "disconnect", ok)
    /\ IF discStep = "CloseSession"
       THEN /\ camPc' = "closed"
            /\ discStep' = "none"
            /\ UNCHANGED <<queue, remoteModeEnabled, eventModeEnabled>>
       ELSE IF ~ok
       THEN /\ camPc' = "ready"
            /\ discStep' = "none"
            /\ UNCHANGED <<queue, remoteModeEnabled, eventModeEnabled>>
       ELSE IF discStep = "CanonSetRemoteMode"
       THEN /\ remoteModeEnabled' = FALSE
            /\ discStep' = "CanonSetEventMode"
            /\ CameraSend(Request("disconnect", "CanonSetEventMode", NoProp))
            /\ UNCHANGED <<camPc, eventModeEnabled>>
       ELSE /\ eventModeEnabled' = FALSE
            /\ discStep' = "CloseSession"
            /\ CameraSend(Request("disconnect", "CloseSession", NoProp))
            /\ UNCHANGED <<camPc, remoteModeEnabled>>
    /\ NoResponse
    /\ UNCHANGED <<outsideCanon, setVars, handshakeVars, connStep, flushIndex, emptyCount, callerVars,
                   propVars>>

\* Index range of the operations on the wire.
WireSlots == 1..(MaxQueue + 1)

NextCanon ==
    \/ EngineTransmit
    \/ \E i \in WireSlots : EngineDataPhase(i)
    \/ CanonConnect
    \/ \E i \in WireSlots, ok \in BOOLEAN : ConnectSendDone(i, ok)
    \/ \E i \in WireSlots, ok \in BOOLEAN, events \in EventBatches :
          FlushSendDone(i, ok, events)
    \/ FlushSleepDone
    \/ TimerTick
    \/ \E i \in WireSlots, ok \in BOOLEAN, events \in EventBatches :
          PollSendDone(i, ok, events)
    \/ \E p \in Props, value \in Values : SetCanonProperty(p, value)
    \/ \E i \in WireSlots, ok \in BOOLEAN : SetSendDone(i, ok)
    \/ CaptureImage
    \/ \E i \in WireSlots, ok \in BOOLEAN : CaptureSendDone(i, ok)
    \/ \E p \in Props : GetCanonProperty(p)
    \/ \E i \in WireSlots, ok \in BOOLEAN : GetSendDone(i, ok)
    \/ \E p \in Props : GetTimeout(p)
    \/ CanonDisconnect
    \/ \E i \in WireSlots, ok \in BOOLEAN : DisconnectSendDone(i, ok)

SpecCanon == InitCanon /\ [][NextCanon]_vars

Handshake ==
    <<"OpenSession", "CanonSetRemoteMode", "CanonSetEventMode", "CanonGetEventData">>

\* The awaited part of connect(): the operations go out in handshake order,
\* each after the one before it succeeded, OpenSession with session 1, and
\* polling needs OpenSession, CanonSetRemoteMode and CanonSetEventMode done.
AwaitedHandshakeInOrder ==
    /\ connSent = SubSeq(Handshake, 1, Len(connSent))
    /\ \A k \in 2..Len(connSent) : connSent[k - 1] \in connAcked
    /\ connSent # <<>> => sessionId = 1
    /\ eventPollingInterval =>
           {"OpenSession", "CanonSetRemoteMode", "CanonSetEventMode"} \subseteq connAcked

\* C20: connect() sends OpenSession first, with SessionID 1, then
\* CanonSetRemoteMode, then CanonSetEventMode, then CanonGetEventData, each
\* only after the ones before it have succeeded, and the polling interval is
\* set only if no operation connect() sent before it was rejected.
C20_ConnectHandshakeOrder ==
    /\ AwaitedHandshakeInOrder
    /\ eventPollingInterval => connFailed = {}

\* C21: whenever disconnect() settles, resolved or rejected, event polling is
\* stopped and the session and the transport have been closed.
C21_DisconnectAlwaysCloses ==
    [][(discStep # "none" /\ discStep' = "none")
          => (~eventPollingInterval' /\ camPc' = "closed")]_vars

\* C22: every event record a CanonGetEventData response returned, during the
\* initial flush as well as on a timer poll, has been passed to handleEvent
\* exactly once, in the order returned.
C22_ReturnedEventsDispatched == handledEvents = returnedEvents

\* C30: a get that returns right after a set of the property has resolved,
\* with no event response in between, returns the value that was set.
C30_GetAfterSetReturnsSetValue ==
    [][\A p \in Props :
          (/\ freshSet[p] # NoValue
           /\ freshSet'[p] = freshSet[p]
           /\ getState'[p] = "value"
           /\ (getState[p] # "value" \/ getValue'[p] # getValue[p]))
             => getValue'[p] = freshSet[p]]_vars

====
